---- MODULE Spec2Model ----
(***************************************************************************)
(* Verification model of the namefix processing engine.                   *)
(*                                                                         *)
(*   SpecSvc  : NamefixService lifecycle, watcher supervision, watcher     *)
(*              lock and health monitor.                                   *)
(*   SpecHealth : the health monitor alone, on a running service, over     *)
(*              more ticks and watcher instances.                          *)
(*   SpecPipe : per-file pipelines (rename, convert, rename+convert,       *)
(*              legacy) with RenameService reservations, ConversionService,*)
(*              TrashService, FsSafe and the journal.                      *)
(*   SpecJournal : JournalStore record / undo.                             *)
(*                                                                         *)
(* A step of the model is one resumption of an async function: it runs     *)
(* from the completion of the awaited external operation (fs, watcher,     *)
(* converter, trash) to the next such await, as the single-threaded event  *)
(* loop does.                                                              *)
(***************************************************************************)
EXTENDS Integers, Sequences, FiniteSets, TLC

\* ---------------------------------------------------------------- bounds
MaxSync == 3
MaxInst == 3
MaxTicks == 1
MaxRuns == 2
HealthInst == 5
HealthTicks == 5
MaxDirs == 2
MaxListeners == 3
MaxInits == 2

\* ------------------------------------------------------ program constants
MAX_RESTART_ATTEMPTS == 3

\* ------------------------------------------------------------- universes
Dirs == {"d1", "d2"}
Hole == "hole"
Null == "null"
DirSeqs == {<<>>, <<"d1">>, <<"d2">>, <<"d1", "d2">>}

VARIABLES
  \* NamefixService
  running,                 \* this.running
  config,                  \* this.config: Null or the normalized watchDirs
  watchers,                \* this.watchers: dir -> instance id (0 = no entry)
  mapData,                 \* insertion order of this.watchers (Map entry list)
  inst,                    \* watcher instances created by the factory
  nextInst,                \* number of instances created so far
  watcherLock,             \* this.watcherLock: id of the latest lock promise
  released,                \* lock promises that are resolved
  sync,                    \* syncWatchers invocations (with their caller)
  healthCheckInterval,     \* this.healthCheckInterval # null
  watcherRestartAttempts,  \* this.watcherRestartAttempts
  hc,                      \* the checkWatcherHealth invocation in progress
  ticks,                   \* health-check timer firings still to come (model budget)
  failed,                  \* history: consecutive failed restarts per dir in this run
  permToast,               \* history: permanent-failure toasts per dir (capped at 2)
  status,                  \* `running` of the latest 'status' event (Null: none yet)
  configListeners,         \* callbacks init has registered with configStore.onChange
  configEvents,            \* history: 'config' events of the latest store notification
  \* pipelines, RenameService, JournalStore and the watched directory
  disk,                    \* names of the files in the watched directory
  inFlightTargets,         \* RenameService.inFlightTargets
  journal,                 \* journal.ndjson: the entries on disk
  cache,                   \* JournalStore.cache
  pl,                      \* handleWatchEvent invocations (one per slot)
  un,                      \* the JournalStore.undo invocation in progress
  dryRun,                  \* config.dryRun
  \* ConfigStore and the config file
  defaultDir,              \* DEFAULT_WATCH_DIR ("" when HOME is not set)
  current,                 \* ConfigStore.current (<<>>: null, else <<cfg>>)
  file,                    \* config.json (<<>>: absent, else <<its content>>)
  st,                      \* the ConfigStore.set invocation in progress
  seen,                    \* history: the config last passed to the listener
  \* TypedEmitter / EventBus, the listeners of one event key
  listeners,               \* the EventEmitter's listener array for the key
  em,                      \* the latest emit call, with the calls it made
  \* WatchService (one started instance) and FsSafe
  pending,                 \* WatchService.pending
  hn,                      \* the handleNewFile call in progress per file
  active,                  \* handleWatchEvent calls in progress per file
  ar,                      \* the FsSafe.atomicRename invocation in progress
  \* ProfileMatcher and the naming functions of RenameService / NameTemplate
  pm,                      \* a ProfileMatcher: its input, its matchers, its last match
  nm                       \* a file name on its way through targetForProfile and back

svcVars == <<running, config, watchers, mapData, inst, nextInst, watcherLock,
             released, sync, healthCheckInterval, watcherRestartAttempts, hc,
             ticks, failed, permToast, status, configListeners, configEvents>>

pipeVars == <<disk, inFlightTargets, journal, cache, pl, un, dryRun>>

storeVars == <<defaultDir, current, file, st, seen>>

busVars == <<listeners, em>>

fsVars == <<pending, hn, active, ar>>

nameVars == <<pm, nm>>

vars == <<svcVars, pipeVars, storeVars, busVars, fsVars, nameVars>>

\* ------------------------------------------------------------- helpers
Range(s) == {s[i] : i \in 1..Len(s)}

\* ------------------------------------------- ConfigStore, TypedEmitter: rest
\* `current` and `file` hold zero or one config
NoCfg == <<>>

\* no ConfigStore.set is in progress
IdleSt == [pc |-> "idle", next |-> NoCfg, merged |-> NoCfg]

\* no emit has been called
IdleEm == [pc |-> "idle", snap |-> <<>>, i |-> 0, calls |-> <<>>]

\* a ConfigStore nobody uses
StoreIdle ==
  /\ defaultDir = <<>>
  /\ current = NoCfg
  /\ file = NoCfg
  /\ st = IdleSt
  /\ seen = <<>>

\* an emitter nobody uses
BusIdle ==
  /\ listeners = <<>>
  /\ em = IdleEm

\* the files the watched directory gets events for
Files == {"A.heic", "A.heif", "B.png"}

\* no atomicRename has been called
IdleAr == [pc |-> "idle", i |-> 0, errs |-> <<>>, res |-> "null"]

\* no ProfileMatcher has been constructed
IdlePm == [pc |-> "idle", profiles |-> <<>>, matchers |-> <<>>, basename |-> <<>>, res |-> 0]

\* no file is being named
IdleNm == [pc |-> "idle", prefix |-> <<>>, ext |-> <<>>, base |-> <<>>, n |-> 0,
           name |-> <<>>, skipped |-> FALSE]

\* the naming functions and the matcher are not in use
NameIdle ==
  /\ pm = IdlePm
  /\ nm = IdleNm

\* a started watcher with no event yet, and an FsSafe nobody uses
FsIdle ==
  /\ pending = {}
  /\ hn = [f \in Files |-> <<>>]
  /\ active = [f \in Files |-> 0]
  /\ ar = IdleAr

SeqRemove(s, x) == SelectSeq(s, LAMBDA e : e # x)

SeqReplace(s, x, y) == [i \in 1..Len(s) |-> IF s[i] = x THEN y ELSE s[i]]

Min(a, b) == IF a < b THEN a ELSE b

\* ===================================================== NamefixService state
InstStates == {"none", "starting", "healthy", "dead", "stopped", "disposed"}

NoInst == [dir |-> Null, st |-> "none"]

IdleSync == [kind |-> "none", pc |-> "idle", prev |-> 0, ok |-> TRUE,
             desired |-> <<>>, todo |-> <<>>, cur |-> Null, ni |-> 0,
             stopI |-> [d \in Dirs |-> 0], stopPh |-> [d \in Dirs |-> "-"]]

IdleHc == [pc |-> "idle", idx |-> 0, cur |-> Null, unhealthy |-> <<>>,
           old |-> 0, ni |-> 0]

\* The entries of the Map this.watchers, in iteration order.
MapSet(md, w, d) == IF w[d] # 0 THEN md ELSE Append(md, d)

\* Map.delete: an iterator in progress (the scan of checkWatcherHealth) keeps
\* its position, so the entry becomes a hole; otherwise the list is compacted.
MapDelete(md, d, scanning) ==
  IF scanning THEN SeqReplace(md, d, Hole) ELSE SeqRemove(md, d)

Compact(md) == SeqRemove(md, Hole)

\* WatchService.isHealthy
isHealthy(I, i) == I[i].st = "healthy"

\* WatchService.stop / dispose on an instance
StopInst(I, i) ==
  [I EXCEPT ![i].st = IF @ = "disposed" THEN "disposed" ELSE "stopped"]

DisposeInst(I, i) == [I EXCEPT ![i].st = "disposed"]

\* completion of WatchService.start
StartedInst(I, i, ok) ==
  [I EXCEPT ![i].st = IF @ = "starting" THEN (IF ok THEN "healthy" ELSE "dead") ELSE @]

\* getWatchDirs(cfg)
getWatchDirs(cfg) == IF cfg = Null THEN <<>> ELSE cfg

\* Promise plumbing (lock hand-over, continuation of start/stop after
\* syncWatchers) runs as microtasks, before any timer or I/O completion.
\* a lock that does not await the previous holder
LockAcquirableNoWait(k) == sync[k].pc = "wait"

LockAcquirable(k) == sync[k].pc = "wait" /\ sync[k].prev \in released

MicrotaskPending ==
  \E k \in DOMAIN sync : sync[k].pc = "cont" \/ LockAcquirable(k)

\* ------------------------------------------------------ syncWatchers body
RECURSIVE DropPresent(_, _)
DropPresent(todo, w) ==
  IF todo = <<>> THEN <<>>
  ELSE IF w[Head(todo)] # 0 THEN DropPresent(Tail(todo), w)
  ELSE todo

\* return / throw out of the locked body: finally release(), then the caller
FinishRec(s, ok) ==
  [IdleSync EXCEPT !.kind = s.kind, !.prev = s.prev, !.ok = ok,
                   !.pc = IF ok /\ s.kind \in {"start", "stop"} THEN "cont" ELSE "done"]

\* for (const dir of desiredDirs) { if has(dir) continue; await startWatcher }
StartLoopRec(s, todo, w) ==
  LET t == DropPresent(todo, w) IN
  IF t = <<>> THEN FinishRec(s, TRUE)
  ELSE [s EXCEPT !.pc = "ensure", !.cur = Head(t), !.todo = Tail(t), !.ni = 0,
                 !.stopI = IdleSync.stopI, !.stopPh = IdleSync.stopPh]

\* after Promise.allSettled(stops)
AfterStopsRec(s, w, run) ==
  IF ~run \/ s.desired = <<>> THEN FinishRec(s, TRUE)
  ELSE StartLoopRec(s, s.desired, w)

\* emitStatus: no event before init; otherwise the event's `running` field
emitStatus(cfg, run, w, old) ==
  IF cfg = Null THEN old ELSE (run /\ \E d \in Dirs : w[d] # 0)

\* a lock whose release() follows the body instead of sitting in a finally:
\* a body that threw leaves the lock held
SetSyncNoFinally(k, r, w) ==
  /\ sync' = [sync EXCEPT ![k] = r]
  /\ released' = IF r.pc \in {"cont", "done"} /\ r.ok THEN released \cup {k} ELSE released
  /\ status' = IF r.pc \in {"cont", "done"} /\ r.ok
               THEN emitStatus(config, running, w, status) ELSE status

\* the invocation goes on as r: when it left the locked body (return or
\* throw) the finally of withWatcherLock has called release(); when the body
\* returned normally it has called emitStatus (w: the watcher map at that point)
SetSync(k, r, w) ==
  /\ sync' = [sync EXCEPT ![k] = r]
  /\ released' = IF r.pc \in {"cont", "done"} THEN released \cup {k} ELSE released
  /\ status' = IF r.pc \in {"cont", "done"} /\ r.ok
               THEN emitStatus(config, running, w, status) ELSE status

\* withWatcherLock: previous = this.watcherLock; this.watcherLock = new Promise
CallSync(kind) ==
  /\ watcherLock + 1 \in DOMAIN sync
  /\ watcherLock' = watcherLock + 1
  /\ sync' = [sync EXCEPT ![watcherLock + 1] =
                [IdleSync EXCEPT !.kind = kind, !.pc = "wait", !.prev = watcherLock]]

\* ------------------------------------------------------------ public API
\* the callback of init runs n times: n syncWatchers calls
CallSyncs(kind, n) ==
  /\ watcherLock + n \in DOMAIN sync
  /\ watcherLock' = watcherLock + n
  /\ sync' = [k \in DOMAIN sync |->
                IF k \in (watcherLock + 1)..(watcherLock + n)
                THEN [IdleSync EXCEPT !.kind = kind, !.pc = "wait", !.prev = k - 1]
                ELSE sync[k]]

\* init, after its await of configStore.get(): applyConfig, then onChange
\* registers one more callback and calls it at once with the store's config
init(dirs) ==
  /\ configListeners < MaxInits
  /\ config # Null => dirs = config
  /\ config' = dirs
  /\ configListeners' = configListeners + 1
  /\ configEvents' = 1
  /\ IF running THEN CallSync("config") ELSE UNCHANGED <<watcherLock, sync>>
  /\ UNCHANGED <<pipeVars, storeVars, busVars, fsVars, nameVars>>
  /\ UNCHANGED <<running, watchers, mapData, inst, nextInst, released,
                 healthCheckInterval, watcherRestartAttempts, hc, ticks,
                 failed, permToast>>
  /\ status' = emitStatus(config', running, watchers, status)

start ==
  /\ ~running
  /\ running' = TRUE
  /\ watcherRestartAttempts' = [d \in Dirs |-> 0]
  /\ failed' = [d \in Dirs |-> 0]
  /\ CallSync("start")
  /\ UNCHANGED <<pipeVars, storeVars, busVars, fsVars, nameVars, configListeners, configEvents>>
  /\ UNCHANGED <<config, watchers, mapData, inst, nextInst, released,
                 healthCheckInterval, hc, ticks, permToast, status>>

stop ==
  /\ running
  /\ running' = FALSE
  /\ healthCheckInterval' = FALSE
  /\ CallSync("stop")
  /\ UNCHANGED <<pipeVars, storeVars, busVars, fsVars, nameVars, configListeners, configEvents>>
  /\ UNCHANGED <<config, watchers, mapData, inst, nextInst, released,
                 watcherRestartAttempts, hc, ticks, failed, permToast, status>>

\* a notification of the store: every callback init registered runs
onConfigChange(dirs) ==
  /\ config # Null
  /\ dirs # config
  /\ config' = dirs
  /\ configEvents' = configListeners
  /\ IF running THEN CallSyncs("config", configListeners)
     ELSE UNCHANGED <<watcherLock, sync>>
  /\ UNCHANGED <<pipeVars, storeVars, busVars, fsVars, nameVars, configListeners>>
  /\ UNCHANGED <<running, watchers, mapData, inst, nextInst, released,
                 healthCheckInterval, watcherRestartAttempts, hc, ticks, failed,
                 permToast>>
  /\ status' = emitStatus(config', running, watchers, status)

\* ------------------------------------------------- syncWatchers resumptions
Scanning == hc.pc = "access"

syncWatchers(k) ==
  /\ LockAcquirable(k)
  /\ LET s == sync[k]
         desired == IF running THEN getWatchDirs(config) ELSE <<>>
         toStop == {d \in Dirs : watchers[d] # 0 /\ d \notin Range(desired)}
     IN IF config = Null THEN SetSync(k, FinishRec(s, FALSE), watchers)
        ELSE IF toStop # {}
        THEN SetSync(k, [s EXCEPT !.pc = "stopping", !.desired = desired,
                           !.stopI = [d \in Dirs |-> IF d \in toStop THEN watchers[d] ELSE 0],
                           !.stopPh = [d \in Dirs |-> IF d \in toStop THEN "stop" ELSE "-"]], watchers)
        ELSE SetSync(k, AfterStopsRec([s EXCEPT !.desired = desired], watchers, running), watchers)
  /\ UNCHANGED <<pipeVars, storeVars, busVars, fsVars, nameVars, configListeners, configEvents>>
  /\ UNCHANGED <<running, config, watchers, mapData, inst, nextInst, watcherLock,
                 healthCheckInterval, watcherRestartAttempts, hc, ticks, failed,
                 permToast>>

\* stopWatcher: await watcher.stop() completes
syncStopDone(k, d) ==
  /\ ~MicrotaskPending
  /\ sync[k].pc = "stopping" /\ sync[k].stopPh[d] = "stop"
  /\ inst' = StopInst(inst, sync[k].stopI[d])
  /\ SetSync(k, [sync[k] EXCEPT !.stopPh[d] = "dispose"], watchers)
  /\ UNCHANGED <<pipeVars, storeVars, busVars, fsVars, nameVars, configListeners, configEvents>>
  /\ UNCHANGED <<running, config, watchers, mapData, nextInst, watcherLock,
                 healthCheckInterval, watcherRestartAttempts, hc, ticks, failed,
                 permToast>>

\* stopWatcher: await watcher.dispose() completes; finally watchers.delete(dir)
syncDisposeDone(k, d) ==
  /\ ~MicrotaskPending
  /\ sync[k].pc = "stopping" /\ sync[k].stopPh[d] = "dispose"
  /\ inst' = DisposeInst(inst, sync[k].stopI[d])
  /\ watchers' = [watchers EXCEPT ![d] = 0]
  /\ mapData' = MapDelete(mapData, d, Scanning)
  /\ LET s == [sync[k] EXCEPT !.stopPh[d] = "-", !.stopI[d] = 0] IN
     IF \A e \in Dirs : s.stopPh[e] = "-"
     THEN SetSync(k, AfterStopsRec(s, watchers', running), watchers')
     ELSE SetSync(k, s, watchers')
  /\ UNCHANGED <<pipeVars, storeVars, busVars, fsVars, nameVars, configListeners, configEvents>>
  /\ UNCHANGED <<running, config, nextInst, watcherLock, healthCheckInterval,
                 watcherRestartAttempts, hc, ticks, failed, permToast>>

\* startWatcher: await ensureDir(dir) completes; createWatcher, watchers.set,
\* watcher.start is called
syncEnsureDone(k, ok) ==
  /\ ~MicrotaskPending
  /\ sync[k].pc = "ensure"
  /\ IF ok
     THEN /\ nextInst + 1 \in DOMAIN inst
          /\ nextInst' = nextInst + 1
          /\ inst' = [inst EXCEPT ![nextInst + 1] = [dir |-> sync[k].cur, st |-> "starting"]]
          /\ mapData' = MapSet(mapData, watchers, sync[k].cur)
          /\ watchers' = [watchers EXCEPT ![sync[k].cur] = nextInst + 1]
          /\ SetSync(k, [sync[k] EXCEPT !.pc = "starting", !.ni = nextInst + 1], watchers')
     ELSE /\ SetSync(k, FinishRec(sync[k], FALSE), watchers)
          /\ UNCHANGED <<nextInst, inst, mapData, watchers>>
  /\ UNCHANGED <<pipeVars, storeVars, busVars, fsVars, nameVars, configListeners, configEvents>>
  /\ UNCHANGED <<running, config, watcherLock, healthCheckInterval,
                 watcherRestartAttempts, hc, ticks, failed, permToast>>

\* startWatcher: await watcher.start(...) completes
syncStartDone(k, ok) ==
  /\ ~MicrotaskPending
  /\ sync[k].pc = "starting"
  /\ inst' = StartedInst(inst, sync[k].ni, ok)
  /\ IF ok THEN SetSync(k, StartLoopRec(sync[k], sync[k].todo, watchers), watchers)
     ELSE SetSync(k, FinishRec(sync[k], FALSE), watchers)
  /\ UNCHANGED <<pipeVars, storeVars, busVars, fsVars, nameVars, configListeners, configEvents>>
  /\ UNCHANGED <<running, config, watchers, mapData, nextInst, watcherLock,
                 healthCheckInterval, watcherRestartAttempts, hc, ticks, failed,
                 permToast>>

\* continuation of start() / stop() after `await this.syncWatchers()`
startContinue(k) ==
  /\ sync[k].pc = "cont" /\ sync[k].kind = "start"
  /\ ~\E j \in DOMAIN sync : LockAcquirable(j)
  /\ healthCheckInterval' = TRUE
  /\ sync' = [sync EXCEPT ![k].pc = "done"]
  /\ UNCHANGED <<pipeVars, storeVars, busVars, fsVars, nameVars, configListeners, configEvents>>
  /\ UNCHANGED <<running, config, watchers, mapData, inst, nextInst, watcherLock,
                 released, watcherRestartAttempts, hc, ticks, failed, permToast>>
  /\ status' = emitStatus(config, running, watchers, status)

stopContinue(k) ==
  /\ sync[k].pc = "cont" /\ sync[k].kind = "stop"
  /\ ~\E j \in DOMAIN sync : LockAcquirable(j)
  /\ sync' = [sync EXCEPT ![k].pc = "done"]
  /\ UNCHANGED <<pipeVars, storeVars, busVars, fsVars, nameVars, configListeners, configEvents>>
  /\ UNCHANGED <<running, config, watchers, mapData, inst, nextInst, watcherLock,
                 released, healthCheckInterval, watcherRestartAttempts, hc, ticks,
                 failed, permToast>>
  /\ status' = emitStatus(config, running, watchers, status)

\* ------------------------------------------------------- health monitor
Bump(n) == Min(n + 1, 2)

\* the restart loop with an off-by-one cap (attempts > MAX instead of >=)
RECURSIVE RestartRecOffByOne(_, _, _, _)
RestartRecOffByOne(todo, att, pt, w) ==
  IF todo = <<>> THEN [hc |-> IdleHc, att |-> att, pt |-> pt]
  ELSE LET d == Head(todo) IN
       IF att[d] > MAX_RESTART_ATTEMPTS
       THEN RestartRecOffByOne(Tail(todo), att, [pt EXCEPT ![d] = Bump(@)], w)
       ELSE [hc |-> [IdleHc EXCEPT !.pc = IF w[d] # 0 THEN "stop" ELSE "ensure",
                                   !.cur = d, !.old = w[d], !.unhealthy = Tail(todo)],
             att |-> [att EXCEPT ![d] = @ + 1],
             pt |-> pt]

\* the restart loop of checkWatcherHealth, run until its next await
RECURSIVE RestartRec(_, _, _, _)
RestartRec(todo, att, pt, w) ==
  IF todo = <<>> THEN [hc |-> IdleHc, att |-> att, pt |-> pt]
  ELSE LET d == Head(todo) IN
       IF att[d] >= MAX_RESTART_ATTEMPTS
       THEN RestartRec(Tail(todo), att, [pt EXCEPT ![d] = Bump(@)], w)
       ELSE [hc |-> [IdleHc EXCEPT !.pc = IF w[d] # 0 THEN "stop" ELSE "ensure",
                                   !.cur = d, !.old = w[d], !.unhealthy = Tail(todo)],
             att |-> [att EXCEPT ![d] = @ + 1],
             pt |-> pt]

\* the scan loop of checkWatcherHealth over this.watchers, run until its next
\* await (fs.access of a healthy watcher's directory) or into the restart loop
RECURSIVE ScanRec(_, _, _, _, _, _, _)
ScanRec(idx, unh, md, w, I, att, pt) ==
  IF idx > Len(md) THEN RestartRec(unh, att, pt, w)
  ELSE IF md[idx] = Hole THEN ScanRec(idx + 1, unh, md, w, I, att, pt)
  ELSE IF ~isHealthy(I, w[md[idx]])
       THEN ScanRec(idx + 1, Append(unh, md[idx]), md, w, I, att, pt)
  ELSE [hc |-> [IdleHc EXCEPT !.pc = "access", !.idx = idx + 1, !.cur = md[idx],
                              !.unhealthy = unh],
        att |-> att, pt |-> pt]

SetHc(r) ==
  /\ hc' = r.hc
  /\ watcherRestartAttempts' = r.att
  /\ permToast' = r.pt

\* setInterval callback: checkWatcherHealth()
checkWatcherHealth ==
  /\ ~MicrotaskPending
  /\ healthCheckInterval /\ hc.pc = "idle" /\ ticks > 0
  /\ ticks' = ticks - 1
  /\ IF ~running THEN UNCHANGED <<hc, watcherRestartAttempts, permToast>>
     ELSE SetHc(ScanRec(1, <<>>, mapData, watchers, inst, watcherRestartAttempts, permToast))
  /\ UNCHANGED <<pipeVars, storeVars, busVars, fsVars, nameVars, configListeners, configEvents>>
  /\ UNCHANGED <<running, config, watchers, mapData, inst, nextInst, watcherLock,
                 released, sync, healthCheckInterval, failed, status>>

\* await fs.access(dir) in the scan completes
hcAccessDone(ok) ==
  /\ ~MicrotaskPending
  /\ hc.pc = "access"
  /\ LET unh == IF ok THEN hc.unhealthy ELSE Append(hc.unhealthy, hc.cur)
         r == ScanRec(hc.idx, unh, mapData, watchers, inst, watcherRestartAttempts, permToast)
     IN /\ SetHc(r)
        /\ mapData' = IF r.hc.pc = "access" THEN mapData ELSE Compact(mapData)
  /\ UNCHANGED <<pipeVars, storeVars, busVars, fsVars, nameVars, configListeners, configEvents>>
  /\ UNCHANGED <<running, config, watchers, inst, nextInst, watcherLock, released,
                 sync, healthCheckInterval, ticks, failed, status>>

\* stopWatcher(dir, oldWatcher): await watcher.stop() completes
hcStopDone ==
  /\ ~MicrotaskPending
  /\ hc.pc = "stop"
  /\ inst' = StopInst(inst, hc.old)
  /\ hc' = [hc EXCEPT !.pc = "dispose"]
  /\ UNCHANGED <<pipeVars, storeVars, busVars, fsVars, nameVars, configListeners, configEvents>>
  /\ UNCHANGED <<running, config, watchers, mapData, nextInst, watcherLock, released,
                 sync, healthCheckInterval, watcherRestartAttempts, ticks, failed,
                 permToast, status>>

\* stopWatcher: await watcher.dispose() completes; watchers.delete(dir);
\* startWatcher begins with await ensureDir(dir)
hcDisposeDone ==
  /\ ~MicrotaskPending
  /\ hc.pc = "dispose"
  /\ inst' = DisposeInst(inst, hc.old)
  /\ watchers' = [watchers EXCEPT ![hc.cur] = 0]
  /\ mapData' = MapDelete(mapData, hc.cur, FALSE)
  /\ hc' = [hc EXCEPT !.pc = "ensure", !.old = 0]
  /\ UNCHANGED <<pipeVars, storeVars, busVars, fsVars, nameVars, configListeners, configEvents>>
  /\ UNCHANGED <<running, config, nextInst, watcherLock, released, sync,
                 healthCheckInterval, watcherRestartAttempts, ticks, failed, permToast, status>>

\* startWatcher: await ensureDir(dir) completes
hcEnsureDone(ok) ==
  /\ ~MicrotaskPending
  /\ hc.pc = "ensure"
  /\ IF ok
     THEN /\ nextInst + 1 \in DOMAIN inst
          /\ nextInst' = nextInst + 1
          /\ inst' = [inst EXCEPT ![nextInst + 1] = [dir |-> hc.cur, st |-> "starting"]]
          /\ mapData' = MapSet(mapData, watchers, hc.cur)
          /\ watchers' = [watchers EXCEPT ![hc.cur] = nextInst + 1]
          /\ hc' = [hc EXCEPT !.pc = "starting", !.ni = nextInst + 1]
          /\ UNCHANGED <<watcherRestartAttempts, permToast, failed>>
     ELSE /\ failed' = [failed EXCEPT ![hc.cur] = @ + 1]
          /\ SetHc(RestartRec(hc.unhealthy, watcherRestartAttempts, permToast, watchers))
          /\ UNCHANGED <<nextInst, inst, mapData, watchers>>
  /\ UNCHANGED <<pipeVars, storeVars, busVars, fsVars, nameVars, configListeners, configEvents>>
  /\ UNCHANGED <<running, config, watcherLock, released, sync, healthCheckInterval,
                 ticks, status>>

\* startWatcher: await watcher.start(...) completes; on success the attempts
\* counter is reset
hcStartDone(ok) ==
  /\ ~MicrotaskPending
  /\ hc.pc = "starting"
  /\ inst' = StartedInst(inst, hc.ni, ok)
  /\ IF ok
     THEN /\ failed' = [failed EXCEPT ![hc.cur] = 0]
          /\ SetHc(RestartRec(hc.unhealthy,
                              [watcherRestartAttempts EXCEPT ![hc.cur] = 0],
                              permToast, watchers))
          /\ status' = emitStatus(config, running, watchers, status)
     ELSE /\ failed' = [failed EXCEPT ![hc.cur] = @ + 1]
          /\ SetHc(RestartRec(hc.unhealthy, watcherRestartAttempts, permToast, watchers))
          /\ status' = status
  /\ UNCHANGED <<pipeVars, storeVars, busVars, fsVars, nameVars, configListeners, configEvents>>
  /\ UNCHANGED <<running, config, watchers, mapData, nextInst, watcherLock, released,
                 sync, healthCheckInterval, ticks>>

\* the OS handle of a started watcher dies (FSWatcher 'error': healthy = false)
watcherError(i) ==
  /\ ~MicrotaskPending
  /\ inst[i].st = "healthy"
  /\ inst' = [inst EXCEPT ![i].st = "dead"]
  /\ UNCHANGED <<pipeVars, storeVars, busVars, fsVars, nameVars, configListeners, configEvents>>
  /\ UNCHANGED <<running, config, watchers, mapData, nextInst, watcherLock, released,
                 sync, healthCheckInterval, watcherRestartAttempts, hc, ticks, failed,
                 permToast, status>>

\* ------------------------------------------------ pipeline state (idle)
NoName == [stem |-> Null, n |-> 0, ext |-> Null, r |-> 0]

IdlePl == [pc |-> "idle", action |-> Null, dry |-> FALSE, src |-> NoName,
           n |-> 0, cand |-> NoName, conv |-> NoName, target |-> NoName,
           poll |-> 0, renamed |-> "-", ev |-> <<>>, toasts |-> 0]

IdleUn == [pc |-> "idle", last |-> Null, n |-> 0, target |-> NoName,
           data |-> <<>>, res |-> Null]

\* the part of the state the service-lifecycle specifications do not use
PipeIdle ==
  /\ disk = {}
  /\ inFlightTargets = {}
  /\ journal = <<>>
  /\ cache = <<>>
  /\ pl = [p \in 1..MaxRuns |-> IdlePl]
  /\ un = IdleUn
  /\ dryRun = FALSE

\* ------------------------------------------------------- specification
InitSvc ==
  /\ running = FALSE
  /\ config = Null
  /\ watchers = [d \in Dirs |-> 0]
  /\ mapData = <<>>
  /\ inst = [i \in 1..MaxInst |-> NoInst]
  /\ nextInst = 0
  /\ watcherLock = 0
  /\ released = {0}
  /\ sync = [k \in 1..MaxSync |-> IdleSync]
  /\ healthCheckInterval = FALSE
  /\ watcherRestartAttempts = [d \in Dirs |-> 0]
  /\ hc = IdleHc
  /\ ticks = MaxTicks
  /\ failed = [d \in Dirs |-> 0]
  /\ permToast = [d \in Dirs |-> 0]
  /\ status = Null
  /\ configListeners = 0
  /\ configEvents = 0
  /\ PipeIdle
  /\ StoreIdle
  /\ BusIdle
  /\ FsIdle
  /\ NameIdle

NextSvc ==
  \/ \E dirs \in DirSeqs : init(dirs)
  \/ start
  \/ stop
  \/ \E dirs \in DirSeqs : onConfigChange(dirs)
  \/ \E k \in DOMAIN sync : syncWatchers(k)
  \/ \E k \in DOMAIN sync, d \in Dirs : syncStopDone(k, d)
  \/ \E k \in DOMAIN sync, d \in Dirs : syncDisposeDone(k, d)
  \/ \E k \in DOMAIN sync, ok \in BOOLEAN : syncEnsureDone(k, ok)
  \/ \E k \in DOMAIN sync, ok \in BOOLEAN : syncStartDone(k, ok)
  \/ \E k \in DOMAIN sync : startContinue(k)
  \/ \E k \in DOMAIN sync : stopContinue(k)
  \/ checkWatcherHealth
  \/ \E ok \in BOOLEAN : hcAccessDone(ok)
  \/ hcStopDone
  \/ hcDisposeDone
  \/ \E ok \in BOOLEAN : hcEnsureDone(ok)
  \/ \E ok \in BOOLEAN : hcStartDone(ok)
  \/ \E i \in DOMAIN inst : watcherError(i)

SpecSvc == InitSvc /\ [][NextSvc]_vars

\* The health monitor at work: the service after init({watchDirs: [d1, d2]})
\* and a start() that started both watchers.
InitHealth ==
  /\ running = TRUE
  /\ config = <<"d1", "d2">>
  /\ watchers = [d \in Dirs |-> IF d = "d1" THEN 1 ELSE 2]
  /\ mapData = <<"d1", "d2">>
  /\ inst = [i \in 1..HealthInst |->
               IF i = 1 THEN [dir |-> "d1", st |-> "healthy"]
               ELSE IF i = 2 THEN [dir |-> "d2", st |-> "healthy"]
               ELSE NoInst]
  /\ nextInst = 2
  /\ watcherLock = 1
  /\ released = {0, 1}
  /\ sync = [k \in {1} |-> [IdleSync EXCEPT !.kind = "start", !.pc = "done"]]
  /\ healthCheckInterval = TRUE
  /\ watcherRestartAttempts = [d \in Dirs |-> 0]
  /\ hc = IdleHc
  /\ ticks = HealthTicks
  /\ failed = [d \in Dirs |-> 0]
  /\ permToast = [d \in Dirs |-> 0]
  /\ status = TRUE
  /\ configListeners = 1
  /\ configEvents = 1
  /\ PipeIdle
  /\ StoreIdle
  /\ BusIdle
  /\ FsIdle
  /\ NameIdle

NextHealth ==
  \/ checkWatcherHealth
  \/ \E ok \in BOOLEAN : hcAccessDone(ok)
  \/ hcStopDone
  \/ hcDisposeDone
  \/ \E ok \in BOOLEAN : hcEnsureDone(ok)
  \/ \E ok \in BOOLEAN : hcStartDone(ok)
  \/ \E i \in DOMAIN inst : watcherError(i)

SpecHealth == InitHealth /\ [][NextHealth]_vars

TypeSvc ==
  /\ running \in BOOLEAN
  /\ watcherLock \in {0} \cup DOMAIN sync
  /\ nextInst \in {0} \cup DOMAIN inst
  /\ \A d \in Dirs : watchers[d] \in {0} \cup DOMAIN inst /\ watcherRestartAttempts[d] \in 0..MAX_RESTART_ATTEMPTS

\* ================================================================ pipelines
\* File names of the watched directory: stem, collision suffix _n (1 = none),
\* extension, and the _restored suffix of JournalStore (0 = none).
Name(stem, n, ext) == [stem |-> stem, n |-> n, ext |-> ext, r |-> 0]

\* The stem every template expansion yields here: all events carry the same
\* birthtime and all profiles the same prefix, the case in which targets collide.
TargetStem == "T"

Actions == {"rename", "convert", "rename+convert", "legacy"}

\* ConversionService.canConvert (SUPPORTED_INPUTS)
canConvert(ext) == ext \in {"heic", "heif", "jpeg"}

\* RenameService.needsRenameForProfile: false when the basename already has
\* the shape {prefix}_{date}_{time}[_N].{ext}
needsRenameForProfile(f) == f.stem # TargetStem

\* RenameService.needsRename (legacy): the same shape, extension in
\* png|jpg|jpeg|mov|mp4
needsRename(f) == ~(f.stem = TargetStem /\ f.ext \in {"jpeg", "mp4"})

\* RenameService.reserveTarget, the synchronous part of one loop round: skip
\* the candidates that are in flight
RECURSIVE NextFree(_, _, _, _)
NextFree(stem, ext, n, ift) ==
  IF Name(stem, n, ext) \in ift THEN NextFree(stem, ext, n + 1, ift) ELSE n

\* reserveTarget without the `inFlightTargets.has(candidate)` test
ReserveRecNoSkip(r, stem, ext, n, ift) ==
  [r |-> [r EXCEPT !.pc = "rsv", !.n = n, !.cand = Name(stem, n, ext)],
   ift |-> ift \cup {Name(stem, n, ext)}]

\* RenameService.reserveTarget up to `await exists(candidate)`: the candidate
\* is added to inFlightTargets before the disk check
ReserveRec(r, stem, ext, n, ift) ==
  LET k == NextFree(stem, ext, n, ift) IN
  [r |-> [r EXCEPT !.pc = "rsv", !.n = k, !.cand = Name(stem, k, ext)],
   ift |-> ift \cup {Name(stem, k, ext)}]

Emit(r, kind) == [r EXCEPT !.ev = Append(@, kind)]

\* the handler returns; what is kept is the history the properties read
Done(r) == [r EXCEPT !.pc = "done", !.n = 0, !.cand = NoName, !.poll = 0,
                     !.src = NoName, !.conv = NoName, !.target = NoName]

\* the handler emits 'skipped' and returns before any await; the record keeps
\* the file the event was for
Skipped(r) == [Emit(r, "skipped") EXCEPT !.pc = "done"]

\* handleRenameOnly up to its first await
handleRenameOnly(r, ift) ==
  IF ~needsRenameForProfile(r.src)
  THEN [r |-> Skipped(r), ift |-> ift]
  ELSE ReserveRec(r, TargetStem, r.src.ext, 1, ift)

\* handleLegacyRename up to its first await (targetFor -> reserveTarget). Its
\* statements from there on are those of handleRenameOnly, so the invocation
\* continues as a rename.
handleLegacyRename(r, ift) ==
  IF ~needsRename(r.src)
  THEN [r |-> Skipped(r), ift |-> ift]
  ELSE ReserveRec([r EXCEPT !.action = "rename"], TargetStem, r.src.ext, 1, ift)

\* handleConvert without the `if (cfg.dryRun)` branch
handleConvertIgnoresDryRun(r, ift) ==
  IF ~canConvert(r.src.ext) THEN [r |-> Skipped(r), ift |-> ift]
  ELSE [r |-> [r EXCEPT !.pc = "cvRsv", !.n = 1, !.cand = Name(r.src.stem, 1, "jpeg")],
        ift |-> ift]

\* handleConvert / handleRenameAndConvert up to their first await
\* (ConversionService.convert -> reserveTarget -> await exists(candidate))
handleConvert(r, ift) ==
  IF ~canConvert(r.src.ext) THEN [r |-> Skipped(r), ift |-> ift]
  ELSE IF r.dry THEN [r |-> Done(Emit(r, "preview")), ift |-> ift]
  ELSE [r |-> [r EXCEPT !.pc = "cvRsv", !.n = 1, !.cand = Name(r.src.stem, 1, "jpeg")],
        ift |-> ift]

\* handleRenameAndConvert without the canConvert test
handleRenameAndConvertAnyFormat(r, ift) ==
  IF r.dry THEN [r |-> Done(Emit(r, "preview")), ift |-> ift]
  ELSE [r |-> [r EXCEPT !.pc = "cvRsv", !.n = 1, !.cand = Name(r.src.stem, 1, "jpeg")],
        ift |-> ift]

handleRenameAndConvert(r, ift) ==
  IF ~canConvert(r.src.ext) THEN [r |-> Skipped(r), ift |-> ift]
  ELSE IF r.dry THEN [r |-> Done(Emit(r, "preview")), ift |-> ift]
  ELSE [r |-> [r EXCEPT !.pc = "cvRsv", !.n = 1, !.cand = Name(r.src.stem, 1, "jpeg")],
        ift |-> ift]

\* handleProfileRename / handleWatchEvent dispatch
Dispatch(r, ift) ==
  CASE r.action = "convert" -> handleConvert(r, ift)
    [] r.action = "rename+convert" -> handleRenameAndConvert(r, ift)
    [] r.action = "rename" -> handleRenameOnly(r, ift)
    [] OTHER -> handleLegacyRename(r, ift)

SetPl(p, x) ==
  /\ pl' = [pl EXCEPT ![p] = x.r]
  /\ inFlightTargets' = x.ift

\* the watcher's onAdd callback: handleWatchEvent(dir, ev) for file f, matched
\* by a profile with the given action (or by the legacy matcher), under the
\* configuration cfg = getConfig() of that moment (dry = cfg.dryRun). Events
\* are taken by the slots in order.
handleWatchEvent(p, f, act) ==
  /\ pl[p].pc = "idle"
  /\ \A q \in DOMAIN pl : q < p => pl[q].pc # "idle"
  /\ f \in disk
  /\ SetPl(p, Dispatch([IdlePl EXCEPT !.action = act, !.dry = dryRun, !.src = f],
                       inFlightTargets))
  /\ UNCHANGED <<disk, journal, cache, un, dryRun>>
  /\ UNCHANGED <<svcVars, storeVars, busVars, fsVars, nameVars>>

\* the trash step shared by handleConvert and handleRenameAndConvert
ToTrash(r) == [r EXCEPT !.pc = "trash", !.n = 0, !.cand = NoName,
                        !.conv = NoName, !.target = NoName]

\* RenameService.reserveTarget: `await exists(candidate)` completes; on a free
\* candidate the caller continues up to its next await
reserveTargetDone(p) ==
  /\ pl[p].pc = "rsv"
  /\ LET r == pl[p] IN
     IF r.cand \in disk
     THEN SetPl(p, ReserveRec(r, r.cand.stem, r.cand.ext, r.n + 1,
                              inFlightTargets \ {r.cand}))
     ELSE LET t == [r EXCEPT !.target = r.cand, !.n = 0, !.cand = NoName] IN
          IF r.action = "rename+convert"
          THEN SetPl(p, [r |-> [t EXCEPT !.pc = "ren"], ift |-> inFlightTargets])
          ELSE IF r.dry
          THEN SetPl(p, [r |-> Done(Emit(t, "preview")),
                         ift |-> inFlightTargets \ {t.target}])
          ELSE SetPl(p, [r |-> [t EXCEPT !.pc = "src"], ift |-> inFlightTargets])
  /\ UNCHANGED <<disk, journal, cache, un, dryRun>>
  /\ UNCHANGED <<svcVars, storeVars, busVars, fsVars, nameVars>>

POLL_ATTEMPTS == 6

\* handleRenameOnly / handleLegacyRename: `await pathExists(ev.path)` completes
sourceCheckDone(p) ==
  /\ pl[p].pc = "src"
  /\ pl' = [pl EXCEPT ![p].pc = IF pl[p].src \in disk THEN "ren" ELSE "poll"]
  /\ UNCHANGED <<disk, inFlightTargets, journal, cache, un, dryRun>>
  /\ UNCHANGED <<svcVars, storeVars, busVars, fsVars, nameVars>>

\* the polling loop, reporting a source that stays missing as an 'error'
pollDoneEmitsError(p) ==
  /\ pl[p].pc = "poll"
  /\ LET r == pl[p] IN
     IF r.src \in disk
     THEN SetPl(p, [r |-> [r EXCEPT !.pc = "ren", !.poll = 0], ift |-> inFlightTargets])
     ELSE IF r.poll + 1 < POLL_ATTEMPTS
     THEN SetPl(p, [r |-> [r EXCEPT !.poll = @ + 1], ift |-> inFlightTargets])
     ELSE SetPl(p, [r |-> Done(Emit(r, "error")), ift |-> inFlightTargets \ {r.target}])
  /\ UNCHANGED <<disk, journal, cache, un, dryRun>>
  /\ UNCHANGED <<svcVars, storeVars, busVars, fsVars, nameVars>>

\* one round of the polling loop: delay(150), pathExists(ev.path)
pollDone(p) ==
  /\ pl[p].pc = "poll"
  /\ LET r == pl[p] IN
     IF r.src \in disk
     THEN SetPl(p, [r |-> [r EXCEPT !.pc = "ren", !.poll = 0], ift |-> inFlightTargets])
     ELSE IF r.poll + 1 < POLL_ATTEMPTS
     THEN SetPl(p, [r |-> [r EXCEPT !.poll = @ + 1], ift |-> inFlightTargets])
     ELSE SetPl(p, [r |-> Done(r), ift |-> inFlightTargets \ {r.target}])
  /\ UNCHANGED <<disk, journal, cache, un, dryRun>>
  /\ UNCHANGED <<svcVars, storeVars, busVars, fsVars, nameVars>>

\* what handleRenameAndConvert does after its rename step, and what the
\* rename-only handlers do: the latter return, the former goes on to trash
AfterRename(r) == IF r.action = "rename+convert" THEN ToTrash(r) ELSE Done(r)

\* atomicRename completes, in a handler whose release sits at the end of the
\* try block instead of in a finally: a rename that threw keeps the reservation
atomicRenameDoneNoFinally(p, ok) ==
  /\ pl[p].pc = "ren"
  /\ LET r == pl[p]
         from == IF r.action = "rename+convert" THEN r.conv ELSE r.src
     IN IF ok
        THEN /\ from \in disk
             /\ disk' = (disk \ {from}) \cup {r.target}
             /\ SetPl(p, [r |-> [r EXCEPT !.pc = "rec", !.renamed = "ok"],
                          ift |-> inFlightTargets])
        ELSE /\ disk' = disk
             /\ SetPl(p, [r |-> AfterRename(Emit([r EXCEPT !.renamed = "fail"], "error")),
                          ift |-> inFlightTargets])
  /\ UNCHANGED <<journal, cache, un, dryRun>>
  /\ UNCHANGED <<svcVars, storeVars, busVars, fsVars, nameVars>>

\* FsSafe.atomicRename completes: ok (fs.rename replaced `to`) or it threw
\* (retries exhausted or another error); it cannot succeed without the source
atomicRenameDone(p, ok) ==
  /\ pl[p].pc = "ren"
  /\ LET r == pl[p]
         from == IF r.action = "rename+convert" THEN r.conv ELSE r.src
     IN IF ok
        THEN /\ from \in disk
             /\ disk' = (disk \ {from}) \cup {r.target}
             /\ SetPl(p, [r |-> [r EXCEPT !.pc = "rec", !.renamed = "ok"],
                          ift |-> inFlightTargets])
        ELSE /\ disk' = disk
             /\ SetPl(p, [r |-> AfterRename(Emit([r EXCEPT !.renamed = "fail"], "error")),
                          ift |-> inFlightTargets \ {r.target}])
  /\ UNCHANGED <<journal, cache, un, dryRun>>
  /\ UNCHANGED <<svcVars, storeVars, busVars, fsVars, nameVars>>

\* 'applied' emitted whether or not journal.record resolved
RecordOutcomeAlwaysApplied(r, ok) == Emit(r, "applied")

\* the event that follows `await this.journal.record(from, to)` in the rename
\* handlers: 'applied' when it resolved, 'error' (catch) when it threw
RecordOutcome(r, ok) == Emit(r, IF ok THEN "applied" ELSE "error")

\* JournalStore.record: appendFile, then cache.push
JournalRecord(entry, ok) ==
  /\ journal' = IF ok THEN Append(journal, entry) ELSE journal
  /\ cache' = IF ok THEN Append(cache, entry) ELSE cache

\* `await this.journal.record(ev.path, targetPath)` completes (rename handlers)
recordDone(p, ok) ==
  /\ pl[p].pc = "rec"
  /\ JournalRecord([from |-> pl[p].src, to |-> pl[p].target], ok)
  /\ SetPl(p, [r |-> AfterRename(RecordOutcome(pl[p], ok)),
               ift |-> inFlightTargets \ {pl[p].target}])
  /\ UNCHANGED <<disk, un, dryRun>>
  /\ UNCHANGED <<svcVars, storeVars, busVars, fsVars, nameVars>>

\* ConversionService.reserveTarget: `await exists(candidate)` completes
convReserveDone(p) ==
  /\ pl[p].pc = "cvRsv"
  /\ LET r == pl[p] IN
     IF r.cand \in disk
     THEN pl' = [pl EXCEPT ![p] = [r EXCEPT !.n = @ + 1,
                                            !.cand = Name(r.cand.stem, r.n + 1, "jpeg")]]
     ELSE pl' = [pl EXCEPT ![p] = [r EXCEPT !.pc = "cvExec", !.conv = r.cand,
                                            !.n = 0, !.cand = NoName]]
  /\ UNCHANGED <<disk, inFlightTargets, journal, cache, un, dryRun>>
  /\ UNCHANGED <<svcVars, storeVars, busVars, fsVars, nameVars>>

\* the 'converted' event left out
ConvertedSilent(r) == r

\* the event emitted when converter.convert resolved
Converted(r) == Emit(r, "converted")

\* a catch that emits 'convert-error' and falls through to the trash step
ConvertErrorThenTrash(r) == ToTrash(Emit(r, "convert-error"))

\* the catch of the outer try of handleConvert / handleRenameAndConvert
ConvertError(r) == Done(Emit(r, "convert-error"))

\* `await this.converter.convert(...)` completes: the converter wrote destPath,
\* or it threw (non-zero exit, missing source)
convertDone(p, ok) ==
  /\ pl[p].pc = "cvExec"
  /\ LET r == pl[p] IN
     IF ok
     THEN /\ r.src \in disk
          /\ disk' = disk \cup {r.conv}
          /\ IF r.action = "convert"
             THEN SetPl(p, [r |-> [Converted(r) EXCEPT !.pc = "cvRec"],
                            ift |-> inFlightTargets])
             ELSE SetPl(p, ReserveRec(Converted(r), TargetStem, "jpeg", 1, inFlightTargets))
     ELSE /\ disk' = disk
          /\ SetPl(p, [r |-> ConvertError(r), ift |-> inFlightTargets])
  /\ UNCHANGED <<journal, cache, un, dryRun>>
  /\ UNCHANGED <<svcVars, storeVars, busVars, fsVars, nameVars>>

\* handleConvert: `await this.journal.record(ev.path, result.destPath)` completes
convRecordDone(p, ok) ==
  /\ pl[p].pc = "cvRec"
  /\ JournalRecord([from |-> pl[p].src, to |-> pl[p].conv], ok)
  /\ pl' = [pl EXCEPT ![p] = IF ok THEN ToTrash(pl[p]) ELSE ConvertError(pl[p])]
  /\ UNCHANGED <<disk, inFlightTargets, un, dryRun>>
  /\ UNCHANGED <<svcVars, storeVars, busVars, fsVars, nameVars>>

\* a trash step without its own catch: the failure reaches the outer catch
TrashOutcomeConvertError(r, ok) ==
  IF ok THEN Done(Emit(r, "trashed")) ELSE ConvertError(r)

\* the outcome of `await this.trasher.moveToTrash(ev.path)`: 'trashed' on
\* success, otherwise (success:false or an exception) a warn toast
TrashOutcome(r, ok) ==
  Done(IF ok THEN Emit(r, "trashed") ELSE [r EXCEPT !.toasts = Min(@ + 1, 2)])

\* TrashService.moveToTrash completes; it cannot succeed without the source
moveToTrashDone(p, ok) ==
  /\ pl[p].pc = "trash"
  /\ ok => pl[p].src \in disk
  /\ disk' = IF ok THEN disk \ {pl[p].src} ELSE disk
  /\ pl' = [pl EXCEPT ![p] = TrashOutcome(pl[p], ok)]
  /\ UNCHANGED <<inFlightTargets, journal, cache, un, dryRun>>
  /\ UNCHANGED <<svcVars, storeVars, busVars, fsVars, nameVars>>

\* the service-lifecycle part of the state, at rest
SvcIdle ==
  /\ running = TRUE
  /\ config = <<"d1">>
  /\ watchers = [d \in Dirs |-> IF d = "d1" THEN 1 ELSE 0]
  /\ mapData = <<"d1">>
  /\ inst = [i \in {1} |-> [dir |-> "d1", st |-> "healthy"]]
  /\ nextInst = 1
  /\ watcherLock = 1
  /\ released = {0, 1}
  /\ sync = [k \in {1} |-> [IdleSync EXCEPT !.kind = "start", !.pc = "done"]]
  /\ healthCheckInterval = TRUE
  /\ watcherRestartAttempts = [d \in Dirs |-> 0]
  /\ hc = IdleHc
  /\ ticks = 0
  /\ failed = [d \in Dirs |-> 0]
  /\ permToast = [d \in Dirs |-> 0]
  /\ status = TRUE
  /\ configListeners = 1
  /\ configEvents = 1

\* the files the watched directory starts with, for which the watcher delivers
\* events: two convertible images with the same stem (their conversions and
\* their targets collide) and a file that already has the target shape and
\* is not convertible (every handler skips it)
Sources == {Name("A", 1, "heic"), Name("A", 1, "heif"), Name(TargetStem, 1, "mp4")}

InitPipe ==
  /\ SvcIdle
  /\ StoreIdle
  /\ BusIdle
  /\ FsIdle
  /\ NameIdle
  /\ disk = Sources
  /\ inFlightTargets = {}
  /\ journal = <<>>
  /\ cache = <<>>
  /\ pl = [p \in 1..MaxRuns |-> IdlePl]
  /\ un = IdleUn
  /\ dryRun \in BOOLEAN

NextPipe ==
  \/ \E p \in DOMAIN pl, f \in Sources, act \in Actions : handleWatchEvent(p, f, act)
  \/ \E p \in DOMAIN pl : reserveTargetDone(p)
  \/ \E p \in DOMAIN pl : sourceCheckDone(p)
  \/ \E p \in DOMAIN pl : pollDone(p)
  \/ \E p \in DOMAIN pl, ok \in BOOLEAN : atomicRenameDone(p, ok)
  \/ \E p \in DOMAIN pl, ok \in BOOLEAN : recordDone(p, ok)
  \/ \E p \in DOMAIN pl : convReserveDone(p)
  \/ \E p \in DOMAIN pl, ok \in BOOLEAN : convertDone(p, ok)
  \/ \E p \in DOMAIN pl, ok \in BOOLEAN : convRecordDone(p, ok)
  \/ \E p \in DOMAIN pl, ok \in BOOLEAN : moveToTrashDone(p, ok)

SpecPipe == InitPipe /\ [][NextPipe]_vars

\* ================================================================ journal
\* JournalStore.undo, one action per await. un.last is the entry the invocation
\* popped, un.res what it returned ("ok", "empty", or the reason of a failure).

\* the journal entries of the renames A.heic -> T.heic and A.heif -> T.heif
Entries ==
  {[from |-> Name("A", 1, e), to |-> Name(TargetStem, 1, e)] : e \in {"heic", "heif"}}

\* restoreTarget's candidates: {base}_restored{ext}, {base}_restored_{n}{ext}
Restored(f, n) == [f EXCEPT !.r = n]

\* UndoPop without the `if (!last)` early return being a failure: an empty pop
\* is reported as a completed undo
UndoPopReportsOk(c) ==
  IF c = <<>> THEN [un |-> [IdleUn EXCEPT !.pc = "done", !.res = "ok"], cache |-> c]
  ELSE [un |-> [IdleUn EXCEPT !.pc = "from", !.last = c[Len(c)]],
        cache |-> SubSeq(c, 1, Len(c) - 1)]

\* undo from `const last = this.cache.pop()` up to the first await of
\* restoreTarget (`await existsSafe(entry.from)`)
UndoPop(c) ==
  IF c = <<>> THEN [un |-> [IdleUn EXCEPT !.pc = "done", !.res = "empty"], cache |-> c]
  ELSE [un |-> [IdleUn EXCEPT !.pc = "from", !.last = c[Len(c)]],
        cache |-> SubSeq(c, 1, Len(c) - 1)]

SetUn(x) ==
  /\ un' = x.un
  /\ cache' = x.cache

JFrame == UNCHANGED <<inFlightTargets, pl, dryRun>> /\ UNCHANGED <<svcVars, storeVars, busVars, fsVars, nameVars>>

\* undo() is called; no other undo is in progress (the callers await it)
undo ==
  /\ un.pc \in {"idle", "done"}
  /\ IF cache = <<>>
     THEN un' = [IdleUn EXCEPT !.pc = "ensure"] /\ cache' = cache
     ELSE SetUn(UndoPop(cache))
  /\ UNCHANGED <<disk, journal>>
  /\ JFrame

\* load: `await this.ensure()` completes
loadEnsureDone ==
  /\ un.pc = "ensure"
  /\ un' = [un EXCEPT !.pc = "read"]
  /\ UNCHANGED <<disk, journal, cache>>
  /\ JFrame

\* load: `await fs.readFile(journalPath())` completes: the cache becomes the
\* file's entries (none when the file is missing); a read error other than
\* ENOENT makes undo throw
loadReadDone(ok) ==
  /\ un.pc = "read"
  /\ IF ok THEN SetUn(UndoPop(journal))
     ELSE un' = [un EXCEPT !.pc = "done", !.res = "threw"] /\ cache' = cache
  /\ UNCHANGED <<disk, journal>>
  /\ JFrame

\* restoreTarget: `await existsSafe(entry.from)` completes
restoreFromChecked ==
  /\ un.pc = "from"
  /\ un' = IF un.last.from \in disk
           THEN [un EXCEPT !.pc = "cand", !.n = 1]
           ELSE [un EXCEPT !.pc = "ren", !.target = un.last.from]
  /\ UNCHANGED <<disk, journal, cache>>
  /\ JFrame

\* restoreTarget: `await existsSafe(candidate)` of the while loop completes
restoreCandChecked ==
  /\ un.pc = "cand"
  /\ un' = IF Restored(un.last.from, un.n) \in disk
           THEN [un EXCEPT !.n = @ + 1]
           ELSE [un EXCEPT !.pc = "ren", !.n = 0,
                           !.target = Restored(un.last.from, un.n)]
  /\ UNCHANGED <<disk, journal, cache>>
  /\ JFrame

\* `await this.fsSafe.atomicRename(last.to, target)` completes; on success
\* rewrite() serializes the cache and awaits the write of the temporary file
undoRenameDone(ok) ==
  /\ un.pc = "ren"
  /\ IF ok
     THEN /\ un.last.to \in disk
          /\ disk' = (disk \ {un.last.to}) \cup {un.target}
          /\ un' = [un EXCEPT !.pc = "write", !.data = cache]
     ELSE /\ disk' = disk
          /\ un' = [un EXCEPT !.pc = "done", !.res = "rename_failed"]
  /\ UNCHANGED <<journal, cache>>
  /\ JFrame

\* rewrite: `await fs.writeFile(tmp, data)` completes
rewriteWriteDone(ok) ==
  /\ un.pc = "write"
  /\ un' = IF ok THEN [un EXCEPT !.pc = "mv"]
           ELSE [un EXCEPT !.pc = "done", !.res = "rewrite_failed", !.data = <<>>]
  /\ UNCHANGED <<disk, journal, cache>>
  /\ JFrame

\* rewrite: `await fs.rename(tmp, journalPath())` completes
rewriteRenameDone(ok) ==
  /\ un.pc = "mv"
  /\ journal' = IF ok THEN un.data ELSE journal
  /\ un' = [un EXCEPT !.pc = "done", !.data = <<>>,
                      !.res = IF ok THEN "ok" ELSE "rewrite_failed"]
  /\ UNCHANGED <<disk, cache>>
  /\ JFrame

\* the service records a rename it has made (JournalStore.record)
record(e, ok) ==
  /\ e.to \in disk
  /\ e \notin Range(journal)
  /\ JournalRecord(e, ok)
  /\ UNCHANGED <<disk, un>>
  /\ JFrame

\* a new file appears in the watched directory under the original name of a
\* renamed file (the next download or screenshot with that name)
fileArrives(f) ==
  /\ f \notin disk
  /\ disk' = disk \cup {f}
  /\ UNCHANGED <<journal, cache, un>>
  /\ JFrame

\* the directory after the two renames, in one case with a new file under
\* an original name and its first _restored name; the journal file as an
\* earlier session left it
InitJournal ==
  /\ SvcIdle
  /\ StoreIdle
  /\ BusIdle
  /\ FsIdle
  /\ NameIdle
  /\ disk \in {{e.to : e \in Entries},
               {e.to : e \in Entries} \cup {Name("A", 1, "heif"),
                                            Restored(Name("A", 1, "heif"), 1)}}
  /\ journal \in {<<>>,
                  <<[from |-> Name("A", 1, "heic"), to |-> Name(TargetStem, 1, "heic")]>>,
                  <<[from |-> Name("A", 1, "heic"), to |-> Name(TargetStem, 1, "heic")],
                    [from |-> Name("A", 1, "heif"), to |-> Name(TargetStem, 1, "heif")]>>}
  /\ cache = <<>>
  /\ inFlightTargets = {}
  /\ pl = [p \in 1..MaxRuns |-> IdlePl]
  /\ un = IdleUn
  /\ dryRun = FALSE

NextJournal ==
  \/ undo
  \/ loadEnsureDone
  \/ \E ok \in BOOLEAN : loadReadDone(ok)
  \/ restoreFromChecked
  \/ restoreCandChecked
  \/ \E ok \in BOOLEAN : undoRenameDone(ok)
  \/ \E ok \in BOOLEAN : rewriteWriteDone(ok)
  \/ \E ok \in BOOLEAN : rewriteRenameDone(ok)
  \/ \E e \in Entries, ok \in BOOLEAN : record(e, ok)
  \/ \E e \in Entries : fileArrives(e.from)

SpecJournal == InitJournal /\ [][NextJournal]_vars

\* ================================================================ claims
InBody(k) == sync[k].pc \in {"stopping", "ensure", "starting"}

Begun(k) == sync[k].pc \in {"stopping", "ensure", "starting", "cont", "done"}

Finished(k) == sync[k].pc \in {"cont", "done"}

\* C1: syncWatchers is serialized by a FIFO lock: at most one syncWatchers
\* body is executing at any time, and a body has begun only when every
\* invocation made before it has finished (bodies run in invocation order).
C1_SyncSerialized ==
  /\ Cardinality({k \in DOMAIN sync : InBody(k)}) <= 1
  /\ \A j, k \in DOMAIN sync : (j < k /\ Begun(k)) => Finished(j)

\* one body is suspended while two later invocations are queued behind it
C1_Witness ==
  /\ \E k \in DOMAIN sync : InBody(k)
  /\ Cardinality({k \in DOMAIN sync : sync[k].pc = "wait"}) >= 2

NoStartAfter(k) == \A j \in DOMAIN sync : j > k => sync[j].kind # "start"

\* C7: when a stop() call resolves (and no start() was invoked after it), the
\* health-check timer is inactive, the watcher map is empty and every watcher
\* instance has been stopped and disposed.
C7_StopTearsDown ==
  [][\A k \in DOMAIN sync :
       (sync[k].kind = "stop" /\ sync[k].pc = "cont" /\ sync'[k].pc = "done"
        /\ NoStartAfter(k))
         => /\ ~healthCheckInterval'
            /\ \A d \in Dirs : watchers'[d] = 0
            /\ \A i \in DOMAIN inst : inst'[i].st \in {"none", "disposed"}]_vars

NoSyncActive == \A k \in DOMAIN sync : sync[k].pc \in {"idle", "cont", "done"}

WatchedDirs == {d \in Dirs : watchers[d] # 0}

DesiredDirs == IF running THEN Range(getWatchDirs(config)) ELSE {}

\* C8: whenever no syncWatchers invocation is pending or executing (and no
\* health check is in progress and no sync or restart has failed), the set of
\* directories that have a watcher equals the desired set.
C8_WatchersMatchDesired ==
  (/\ NoSyncActive
   /\ hc.pc = "idle"
   /\ \A k \in DOMAIN sync : sync[k].ok
   /\ \A d \in Dirs : failed[d] = 0)
    => WatchedDirs = DesiredDirs

\* the name a pipeline holds in RenameService.inFlightTargets: the candidate
\* it is checking against the disk, or the target reserveTarget returned to it
\* and it has not released yet
HeldName(p) ==
  IF pl[p].pc = "rsv" THEN pl[p].cand ELSE pl[p].target

Holds(p) == HeldName(p) # NoName

\* C2: concurrent targetForProfile calls for the same directory, template and
\* birthtime never hold the same name: the names held by distinct pipelines
\* are pairwise distinct, and each of them is in inFlightTargets.
C2_TargetsDistinct ==
  /\ \A p \in DOMAIN pl : Holds(p) => HeldName(p) \in inFlightTargets
  /\ \A p, q \in DOMAIN pl :
       (p # q /\ Holds(p) /\ Holds(q)) => HeldName(p) # HeldName(q)

\* two pipelines hold targets that were reserved for the same stem and
\* extension, the second one with a collision suffix
C2_Witness ==
  \E p, q \in DOMAIN pl :
    /\ p # q
    /\ pl[p].target # NoName /\ pl[q].target # NoName
    /\ pl[p].target.stem = pl[q].target.stem
    /\ pl[p].target.ext = pl[q].target.ext
    /\ pl[p].target.n = 1 /\ pl[q].target.n = 2

\* C4: whenever a handler emits 'applied' (rename path or rename+convert
\* path), the journal on disk and its cache hold an entry whose `to` is the
\* target that was applied.
C4_AppliedIsJournaled ==
  [][\A p \in DOMAIN pl :
       (pl'[p].ev # pl[p].ev /\ pl'[p].ev[Len(pl'[p].ev)] = "applied")
         => /\ \E i \in DOMAIN journal' : journal'[i].to = pl[p].target
            /\ \E i \in DOMAIN cache' : cache'[i].to = pl[p].target]_vars

\* a rename pipeline and a rename+convert pipeline have both emitted 'applied'
C4_Witness ==
  /\ \E p \in DOMAIN pl : pl[p].action = "rename" /\ pl[p].ev = <<"applied">>
  /\ \E p \in DOMAIN pl :
       /\ pl[p].action = "rename+convert"
       /\ Len(pl[p].ev) >= 2 /\ pl[p].ev[2] = "applied"
  /\ Len(journal) >= 2

\* C5: while dryRun is true no pipeline renames, converts, trashes or
\* records: the directory and the journal stay as they were, no handler gets
\* past its preview, and the only events are 'preview' and 'skipped'.
C5_DryRunNoMutation ==
  dryRun =>
    /\ disk = Sources
    /\ journal = <<>> /\ cache = <<>>
    /\ \A p \in DOMAIN pl :
         /\ pl[p].pc \in {"idle", "rsv", "done"}
         /\ Range(pl[p].ev) \subseteq {"preview", "skipped"}

\* under dryRun, a rename and a convert pipeline have each ended with a
\* preview
C5_Witness ==
  /\ dryRun
  /\ \A a \in {"rename", "convert"} :
       \E p \in DOMAIN pl :
         pl[p].action = a /\ pl[p].pc = "done" /\ pl[p].ev = <<"preview">>

\* C9: in the rename+convert pipeline a failure short-circuits the later
\* steps: after a failed conversion nothing is renamed or trashed, and after a
\* failed rename of the converted output the original is not trashed and no
\* 'trashed' event is emitted.
C9_FailureShortCircuits ==
  \A p \in DOMAIN pl :
    pl[p].action = "rename+convert" =>
      /\ "convert-error" \in Range(pl[p].ev)
           => pl[p].renamed = "-" /\ "trashed" \notin Range(pl[p].ev)
      /\ pl[p].renamed = "fail" => "trashed" \notin Range(pl[p].ev)

\* C10: in every pipeline a 'trashed' event is preceded by a 'converted' event
C10_ConvertedBeforeTrashed ==
  \A p \in DOMAIN pl :
    \A i \in DOMAIN pl[p].ev :
      pl[p].ev[i] = "trashed" => \E j \in 1..(i - 1) : pl[p].ev[j] = "converted"

\* a convert pipeline and a rename+convert pipeline have both emitted
\* 'converted' and then 'trashed'
C10_Witness ==
  /\ \E p \in DOMAIN pl : pl[p].action = "convert" /\ pl[p].ev = <<"converted", "trashed">>
  /\ \E p \in DOMAIN pl :
       pl[p].action = "rename+convert" /\ pl[p].ev = <<"converted", "applied", "trashed">>

\* C3: undo does not mutate the journal before the reverse rename has
\* succeeded: when undo has failed because the rename threw, the entry it
\* attempted is still in the in-memory cache and in the journal file.
C3_FailedUndoKeepsEntry ==
  (un.pc = "done" /\ un.res = "rename_failed")
    => /\ un.last \in Range(cache)
       /\ un.last \in Range(journal)

Last(q) == q[Len(q)]

\* C11: when the converter throws, the handler emits 'convert-error' as its
\* only file event and returns: it does not go on to the trash step, and the
\* directory and the journal are as they were. (The other way out of the
\* converter's await is its success, which emits 'converted'.)
C11_ConvertFailureOnlyError ==
  [][\A p \in DOMAIN pl :
       (pl[p].pc = "cvExec" /\ pl'[p] # pl[p])
         => \/ /\ pl'[p].pc \in {"cvRec", "rsv"}
               /\ pl'[p].ev = <<"converted">>
            \/ /\ pl'[p].pc = "done"
               /\ pl'[p].ev = <<"convert-error">>
               /\ pl'[p].toasts = 0
               /\ disk' = disk
               /\ journal' = journal /\ cache' = cache]_vars

\* a convert pipeline and a rename+convert pipeline have both ended with
\* 'convert-error' as their only event, and nothing was recorded
C11_Witness ==
  /\ \A a \in {"convert", "rename+convert"} :
       \E p \in DOMAIN pl :
         pl[p].action = a /\ pl[p].pc = "done" /\ pl[p].ev = <<"convert-error">>
  /\ journal = <<>>
  /\ disk = Sources

\* C12: when moveToTrash fails after a successful conversion, the handler
\* emits a warn toast and nothing else: no 'trashed' and no 'convert-error'
\* event, the directory and the journal stay as they are, and (convert
\* pipeline) the 'converted' event and the journal entry of the conversion
\* stand.
C12_TrashFailureOnlyToast ==
  [][\A p \in DOMAIN pl :
       (pl[p].pc = "trash" /\ pl'[p] # pl[p])
         => /\ pl'[p].pc = "done"
            /\ "converted" \in Range(pl'[p].ev)
            /\ \/ /\ pl'[p].ev = Append(pl[p].ev, "trashed")
                  /\ pl'[p].toasts = pl[p].toasts
               \/ /\ pl'[p].ev = pl[p].ev
                  /\ pl'[p].toasts = pl[p].toasts + 1
                  /\ disk' = disk
                  /\ journal' = journal /\ cache' = cache
                  /\ pl[p].action = "convert"
                       => \E i \in DOMAIN journal' : journal'[i].from = pl[p].src]_vars

\* a convert pipeline has converted, recorded, failed to trash the original
\* and warned: the original and the journal entry are still there
C12_Witness ==
  \E p \in DOMAIN pl :
    /\ pl[p].action = "convert" /\ pl[p].pc = "done"
    /\ pl[p].ev = <<"converted">> /\ pl[p].toasts = 1
    /\ Len(journal) = 1 /\ journal[1].from \in disk /\ journal[1].to \in disk

\* the extensions of ConversionService's SUPPORTED_INPUTS among those of the
\* files of the directory
ConvertibleExts == {"heic", "heif", "jpeg"}

\* C13: a 'converted' event is emitted only for a source whose extension
\* canConvert accepts: a convert or rename+convert handler given another file
\* emits 'skipped' and returns, and never gets to the converter.
C13_ConvertedOnlyIfSupported ==
  /\ [](\A p \in DOMAIN pl :
          (pl[p].action \in {"convert", "rename+convert"}
           /\ pl[p].src # NoName /\ pl[p].src.ext \notin ConvertibleExts)
            => pl[p].pc = "done" /\ pl[p].ev = <<"skipped">>)
  /\ [][\A p \in DOMAIN pl :
          (pl'[p].ev # pl[p].ev /\ Last(pl'[p].ev) = "converted")
            => pl[p].src.ext \in ConvertibleExts]_vars

\* a convert handler skipped the mp4 file while another one converted an image
C13_Witness ==
  /\ \E p \in DOMAIN pl :
       /\ pl[p].action \in {"convert", "rename+convert"}
       /\ pl[p].src.ext = "mp4" /\ pl[p].ev = <<"skipped">>
  /\ \E p \in DOMAIN pl : "converted" \in Range(pl[p].ev)

\* the least n for which {base}_restored[_n]{ext} is free
RECURSIVE FirstFreeRestored(_, _, _)
FirstFreeRestored(f, n, files) ==
  IF Restored(f, n) \in files THEN FirstFreeRestored(f, n + 1, files) ELSE n

\* C14: when the reverse rename of an undo succeeds, the file at the entry's
\* `to` has moved to `from` if that path was free, otherwise to the first
\* free {base}_restored[_n]{ext}, and no existing file was overwritten.
C14_UndoRestoresWithoutOverwrite ==
  [][(un.pc = "ren" /\ un'.pc = "write")
       => /\ un.target \notin disk
          /\ disk' = (disk \ {un.last.to}) \cup {un.target}
          /\ un.target = IF un.last.from \notin disk THEN un.last.from
                         ELSE Restored(un.last.from,
                                       FirstFreeRestored(un.last.from, 1, disk))]_vars

\* no start, stop, syncWatchers or health check is in progress
Quiescent ==
  /\ \A k \in DOMAIN sync : sync[k].pc \in {"idle", "done"}
  /\ hc.pc = "idle"

\* C15: once the lifecycle transitions, config changes and watcher-set
\* changes have completed, the latest 'status' event reports
\* running = (the running flag AND at least one watcher exists); with no
\* directory configured it reports running: false.
C15_StatusAgrees ==
  (config # Null /\ Quiescent)
    => /\ status = (running /\ WatchedDirs # {})
       /\ config = <<>> => status = FALSE

\* ================================================================
\* ConfigStore (src/core/config/ConfigStore.ts)
\* ================================================================
\* A path is the sequence of its characters.  A config is its watchDir and
\* its watchDirs; an input of validateConfig (a Partial<IConfig>, or the
\* parsed config file) may lack either key.

\* process.cwd()
Cwd == <<"/">>

\* the strings callers pass as a directory: empty, blank, resolved paths,
\* and other spellings of /a and /b
RawDirs == {<<>>, <<" ">>, <<"/", "a">>, <<"/", "a", "/">>, <<" ", "/", "a">>,
            <<"/", "b">>, <<"b">>}

\* the watchDirs arrays callers pass
RawDirSeqs == UNION {[1..n -> RawDirs] : n \in 0..MaxDirs}

\* the Partial<IConfig> values callers pass to set()
Partials ==
  {p \in [hasDir : BOOLEAN, watchDir : RawDirs,
          hasDirs : BOOLEAN, watchDirs : RawDirSeqs] :
     /\ ~p.hasDir => p.watchDir = <<>>
     /\ ~p.hasDirs => p.watchDirs = <<>>}

\* String.prototype.trimStart / trimEnd / trim
RECURSIVE trimStart(_)
trimStart(s) == IF s # <<>> /\ s[1] = " " THEN trimStart(Tail(s)) ELSE s

RECURSIVE trimEnd(_)
trimEnd(s) ==
  IF s # <<>> /\ s[Len(s)] = " " THEN trimEnd(SubSeq(s, 1, Len(s) - 1)) ELSE s

trim(s) == trimEnd(trimStart(s))

\* repeated slashes collapse into one
RECURSIVE squeeze(_)
squeeze(s) ==
  IF Len(s) < 2 THEN s
  ELSE IF s[1] = "/" /\ s[2] = "/" THEN squeeze(Tail(s))
  ELSE <<s[1]>> \o squeeze(Tail(s))

\* path.resolve(s): a relative path is taken from the working directory;
\* the result has no empty segment and no trailing slash
resolve(s) ==
  LET abs == IF s # <<>> /\ s[1] = "/" THEN s ELSE Cwd \o <<"/">> \o s
      q == squeeze(abs)
  IN IF Len(q) > 1 /\ q[Len(q)] = "/" THEN SubSeq(q, 1, Len(q) - 1) ELSE q

\* sanitizeDirs, first loop: the non-blank entries, trimmed and resolved
RECURSIVE resolveEntries(_)
resolveEntries(rawDirs) ==
  IF rawDirs = <<>> THEN <<>>
  ELSE (IF trim(Head(rawDirs)) # <<>> THEN <<resolve(trim(Head(rawDirs)))>>
        ELSE <<>>) \o resolveEntries(Tail(rawDirs))

\* sanitizeDirs, second loop: the first occurrence of every entry
RECURSIVE normalized(_, _)
normalized(dirs, seenDirs) ==
  IF dirs = <<>> THEN <<>>
  ELSE IF Head(dirs) \in seenDirs THEN normalized(Tail(dirs), seenDirs)
  ELSE <<Head(dirs)>> \o normalized(Tail(dirs), seenDirs \cup {Head(dirs)})

\* sanitizeDirs without its second loop
sanitizeDirsKeepRepeats(rawDirs, def) ==
  LET dirs == resolveEntries(rawDirs)
  IN IF dirs = <<>> /\ def # <<>> THEN <<resolve(def)>> ELSE dirs

sanitizeDirs(rawDirs, def) ==
  LET dirs == resolveEntries(rawDirs)
  IN normalized(IF dirs = <<>> /\ def # <<>> THEN <<resolve(def)>> ELSE dirs, {})

DEFAULT_CONFIG(def) ==
  [watchDir |-> def, watchDirs |-> IF def # <<>> THEN <<def>> ELSE <<>>]

\* a config as an input that has both keys
Full(cfg) == [hasDir |-> TRUE, watchDir |-> cfg.watchDir,
              hasDirs |-> TRUE, watchDirs |-> cfg.watchDirs]

\* { ...cfg, ...next }
Spread(cfg, next) ==
  [hasDir |-> TRUE,
   watchDir |-> IF next.hasDir THEN next.watchDir ELSE cfg.watchDir,
   hasDirs |-> TRUE,
   watchDirs |-> IF next.hasDirs THEN next.watchDirs ELSE cfg.watchDirs]

validateConfig(input, def) ==
  LET d == DEFAULT_CONFIG(def)
      rawDir == IF input.hasDir THEN input.watchDir ELSE d.watchDir
      candidateDirs == IF input.hasDirs THEN input.watchDirs
                       ELSE IF input.hasDir /\ input.watchDir # <<>>
                            THEN <<input.watchDir>>
                       ELSE d.watchDirs
      dirs == sanitizeDirs(candidateDirs, def)
      watchDir == IF rawDir # <<>> THEN rawDir
                  ELSE IF dirs # <<>> THEN dirs[1] ELSE d.watchDir
      promoted == IF watchDir # <<>>
                  THEN <<watchDir>> \o SelectSeq(dirs, LAMBDA dir : dir # watchDir)
                  ELSE dirs
  IN [watchDir |-> watchDir,
      watchDirs |-> IF promoted = <<>> /\ watchDir # <<>> THEN <<watchDir>>
                    ELSE promoted]

\* a config file written by a release that had no watchDirs key
LegacyFile == [hasDir |-> TRUE, watchDir |-> <<"/", "a">>,
               hasDirs |-> FALSE, watchDirs |-> <<>>]

\* a config file whose content is not JSON: JSON.parse throws a SyntaxError
Unparsable == [syntaxError |-> TRUE]

\* set() after its get(): validateConfig of the merge, then persist
Persisting(cur, next, def) ==
  [pc |-> "persist", next |-> NoCfg,
   merged |-> <<validateConfig(Spread(cur, next), def)>>]

\* get() on a store with no cached config: ensureDir, then readFile
get ==
  /\ st.pc = "idle"
  /\ current = NoCfg
  /\ st' = [IdleSt EXCEPT !.pc = "read"]
  /\ UNCHANGED <<defaultDir, current, file, seen>>
  /\ UNCHANGED <<svcVars, pipeVars, busVars, fsVars, nameVars>>

\* set(next): calls get(), which answers from the cache when there is one
set(next) ==
  /\ st.pc = "idle"
  /\ st' = IF current # NoCfg THEN Persisting(current[1], next, defaultDir)
           ELSE [IdleSt EXCEPT !.pc = "read", !.next = <<next>>]
  /\ UNCHANGED <<defaultDir, current, file, seen>>
  /\ UNCHANGED <<svcVars, pipeVars, busVars, fsVars, nameVars>>

\* get(): readFile has answered.  r = "ok": the file was read and parsed;
\* "enoent": there is no file, the defaults are cached and persisted;
\* "error": the file is there but unreadable (an error code other than
\* ENOENT) or not JSON (a SyntaxError, which has no code): the defaults are
\* cached
getReadDone(r) ==
  /\ st.pc = "read"
  /\ r = "ok" => file \notin {NoCfg, <<Unparsable>>}
  /\ r = "enoent" => file = NoCfg
  /\ r = "error" => file # NoCfg
  /\ LET cfg == IF r = "ok" THEN validateConfig(file[1], defaultDir)
                ELSE DEFAULT_CONFIG(defaultDir)
     IN /\ current' = <<cfg>>
        /\ st' = IF r = "enoent" THEN [st EXCEPT !.pc = "persistDefault"]
                 ELSE IF st.next = NoCfg THEN IdleSt
                 ELSE Persisting(cfg, st.next[1], defaultDir)
  /\ UNCHANGED <<defaultDir, file, seen>>
  /\ UNCHANGED <<svcVars, pipeVars, busVars, fsVars, nameVars>>

\* get(): persist(DEFAULT_CONFIG) is over; persist swallows its errors
getPersistDone(ok) ==
  /\ st.pc = "persistDefault"
  /\ file' = IF ok THEN <<Full(DEFAULT_CONFIG(defaultDir))>> ELSE file
  /\ st' = IF st.next = NoCfg THEN IdleSt
           ELSE Persisting(current[1], st.next[1], defaultDir)
  /\ UNCHANGED <<defaultDir, current, seen>>
  /\ UNCHANGED <<svcVars, pipeVars, busVars, fsVars, nameVars>>

\* set(): persist(merged) is over (it swallows its errors); the cache is
\* replaced and emitChange passes merged to the listener
setPersistDone(ok) ==
  /\ st.pc = "persist"
  /\ file' = IF ok THEN <<Full(st.merged[1])>> ELSE file
  /\ current' = st.merged
  /\ seen' = st.merged
  /\ st' = IdleSt
  /\ UNCHANGED defaultDir
  /\ UNCHANGED <<svcVars, pipeVars, busVars, fsVars, nameVars>>

\* a new store with one listener subscribed; HOME set or not; no config
\* file, or the one an earlier release left, or one that is not JSON
InitStore ==
  /\ SvcIdle
  /\ PipeIdle
  /\ BusIdle
  /\ FsIdle
  /\ NameIdle
  /\ defaultDir \in {<<>>, <<"/", "b">>}
  /\ current = NoCfg
  /\ file \in {NoCfg, <<LegacyFile>>, <<Unparsable>>}
  /\ st = IdleSt
  /\ seen = NoCfg

NextStore ==
  \/ get
  \/ \E next \in Partials : set(next)
  \/ \E r \in {"ok", "enoent", "error"} : getReadDone(r)
  \/ \E ok \in BOOLEAN : getPersistDone(ok)
  \/ \E ok \in BOOLEAN : setPersistDone(ok)

SpecStore == InitStore /\ [][NextStore]_vars

NoDuplicates(dirs) == \A i, j \in 1..Len(dirs) : i # j => dirs[i] # dirs[j]

PrimaryFirst(cfg) ==
  IF cfg.watchDirs = <<>> THEN cfg.watchDir = <<>>
  ELSE cfg.watchDir = cfg.watchDirs[1]

C17_BroadcastAfterPersist ==
  [][(st.pc = "persist" /\ st'.pc = "idle")
       => /\ file' = <<Full(seen'[1])>>
          /\ current' = seen']_vars

\* ================================================================
\* TypedEmitter / EventBus: the listeners of one event key
\* ================================================================
\* the listener functions a caller registers
Handlers == {"h1", "h2", "h3"}

\* the array without its last occurrence of h (EventEmitter.removeListener)
RECURSIVE removeListener(_, _)
removeListener(list, h) ==
  IF list = <<>> THEN <<>>
  ELSE IF list[Len(list)] = h THEN SubSeq(list, 1, Len(list) - 1)
  ELSE Append(removeListener(SubSeq(list, 1, Len(list) - 1), h), list[Len(list)])

\* on(event, listener): the listener is appended, also when it is already there
on(h) ==
  /\ em.pc # "calling"
  /\ Len(listeners) < MaxListeners
  /\ listeners' = Append(listeners, h)
  /\ UNCHANGED em
  /\ UNCHANGED <<svcVars, pipeVars, storeVars, fsVars, nameVars>>

\* off(event, listener)
off(h) ==
  /\ em.pc # "calling"
  /\ h \in Range(listeners)
  /\ listeners' = removeListener(listeners, h)
  /\ UNCHANGED em
  /\ UNCHANGED <<svcVars, pipeVars, storeVars, fsVars, nameVars>>

\* the emit call after its handler number i: over when that was the last
AfterCall(e) == IF e.i = Len(e.snap) THEN [e EXCEPT !.pc = "returned"] ELSE e

\* the emit call after a handler threw: the exception leaves emit
Thrown(e) == [e EXCEPT !.pc = "thrown"]

\* emit(event, payload): EventEmitter.emit works on a copy of the array
emit ==
  /\ em.pc # "calling"
  /\ em' = AfterCall([IdleEm EXCEPT !.pc = "calling", !.snap = listeners])
  /\ UNCHANGED listeners
  /\ UNCHANGED <<svcVars, pipeVars, storeVars, fsVars, nameVars>>

\* the next handler of the copy has been called and has returned or thrown
handlerDone(threw) ==
  /\ em.pc = "calling"
  /\ LET e == [em EXCEPT !.i = @ + 1, !.calls = Append(@, em.snap[em.i + 1])]
     IN em' = IF threw THEN Thrown(e) ELSE AfterCall(e)
  /\ UNCHANGED listeners
  /\ UNCHANGED <<svcVars, pipeVars, storeVars, fsVars, nameVars>>

InitBus ==
  /\ SvcIdle
  /\ PipeIdle
  /\ StoreIdle
  /\ BusIdle
  /\ FsIdle
  /\ NameIdle

NextBus ==
  \/ \E h \in Handlers : on(h)
  \/ \E h \in Handlers : off(h)
  \/ emit
  \/ \E threw \in BOOLEAN : handlerDone(threw)

SpecBus == InitBus /\ [][NextBus]_vars

\* C18: when emit is over, every handler that was registered for the key
\* has been called exactly once, in registration order, whether or not an
\* earlier handler threw.
C18_AllHandlersCalled ==
  em.pc \in {"returned", "thrown"} => em.calls = em.snap

\* C19: an operation called before init has completed fails and leaves the
\* service as it was: not running, no watchers, no health timer.
C19_UninitializedUnchanged ==
  (config = Null /\ Quiescent)
    => /\ ~running
       /\ WatchedDirs = {}
       /\ ~healthCheckInterval

\* C20: a second init changes nothing observable: a config change after it
\* produces exactly one 'config' event and exactly one syncWatchers
\* invocation (none when the service is stopped).
C20_ReinitIdempotent ==
  [][(config # Null /\ config' # config)
       => /\ configEvents' = 1
          /\ watcherLock' = watcherLock + (IF running THEN 1 ELSE 0)]_vars

\* C21: after a start() whose watcher start failed, the service is not
\* stuck: the health monitor is active, so that the start is retried.
C21_FailedStartRetried ==
  \A k \in DOMAIN sync :
    (/\ sync[k].kind = "start" /\ sync[k].pc = "done" /\ ~sync[k].ok
     /\ running
     /\ config # Null)
      => healthCheckInterval

\* C22: while the service is running, a watcher whose handle has died and
\* whose restart budget is not used up is restarted at the next health-check
\* tick: with no operation in progress, the health timer is set.
C22_DeadWatcherRestarted ==
  \A d \in Dirs :
    (/\ running
     /\ Quiescent
     /\ watchers[d] # 0
     /\ inst[watchers[d]].st = "dead"
     /\ watcherRestartAttempts[d] < MAX_RESTART_ATTEMPTS)
      => healthCheckInterval

\* C23: when the source of a live rename is missing and has not reappeared
\* by the end of the polling window, the pipeline returns without a rename,
\* without a journal entry and without any file event or toast.
C23_MissingSourceAborts ==
  [][\A p \in DOMAIN pl :
       (pl[p].pc = "poll" /\ pl'[p].pc = "done")
         => /\ pl'[p].ev = <<>>
            /\ pl'[p].toasts = 0
            /\ pl'[p].renamed = "-"
            /\ disk' = disk
            /\ journal' = journal
            /\ cache' = cache]_vars

\* a rename pipeline has given up on a source another pipeline took away
C23_Witness ==
  \E p \in DOMAIN pl :
    /\ pl[p].pc = "done"
    /\ pl[p].action = "rename"
    /\ ~pl[p].dry
    /\ pl[p].ev = <<>>

\* C24: two conversions of different source files that run at the same time
\* never write to the same output path.
C24_ConversionTargetsDistinct ==
  \A p, q \in DOMAIN pl :
    (/\ pl[p].pc = "cvExec" /\ pl[q].pc = "cvExec"
     /\ pl[p].src # pl[q].src)
      => pl[p].conv # pl[q].conv

\* C25: the first get() writes the defaults to the config file exactly when
\* the file is missing or cannot be parsed; a file that parses is left as
\* it is.
C25_DefaultsWrittenWhenUnusable ==
  [][st.pc = "read"
       => (st'.pc = "persistDefault" <=> file \in {NoCfg, <<Unparsable>>})]_vars

\* C26: undo() on an empty journal (nothing in the cache, nothing in the
\* journal file) answers {ok: false, reason: "empty"} once the file has been
\* read, and that step renames nothing and leaves the journal file as it was.
C26_EmptyJournalUndo ==
  [][(un.pc = "read" /\ un'.pc # "read" /\ journal = <<>> /\ un'.res # "threw")
       => /\ un'.pc = "done" /\ un'.res = "empty"
          /\ disk' = disk /\ journal' = journal /\ cache' = <<>>]_vars

C26_Witness ==
  un.pc = "done" /\ un.res = "empty" /\ journal = <<>> /\ cache = <<>>

\* C27: every reservation of a target is released on every way out of a rename
\* handler (preview, missing source, rename done, rename failed, journal
\* failed): whenever no pipeline is in progress the in-flight target set is
\* empty.
C27_ReservationsReleased ==
  (\A p \in DOMAIN pl : pl[p].pc \in {"idle", "done"}) => inFlightTargets = {}

\* nothing is in progress; one pipeline had reserved a target and its rename or
\* journal write failed, another one has renamed its file
C27_Witness ==
  /\ \A p \in DOMAIN pl : pl[p].pc = "done"
  /\ \E p \in DOMAIN pl : pl[p].renamed = "fail" /\ pl[p].ev = <<"error">>
  /\ \E p \in DOMAIN pl : pl[p].renamed = "ok" /\ pl[p].ev = <<"applied">>

\* C28: undo follows the journal, last in first out: the entry an undo takes
\* is the last entry of the journal file, and a successful undo removes exactly
\* that one entry from the file.
C28_UndoIsLifo ==
  [][/\ (un.pc # "from" /\ un'.pc = "from")
          => journal # <<>> /\ un'.last = journal[Len(journal)]
     /\ (un.pc = "mv" /\ un'.pc = "done" /\ un'.res = "ok")
          => /\ Len(journal') = Len(journal) - 1
             /\ Range(journal') = Range(journal) \ {un.last}]_vars

\* ------------------------------------------------ WatchService (events)
\* bound: handleWatchEvent calls in progress for one file
MaxActive == 2

\* handleNewFile returns or throws into its catch: the `.finally` of the
\* 'change' listener removes the path from pending
Settle(f, k) ==
  /\ hn' = [hn EXCEPT ![f] = SubSeq(@, 1, k - 1) \o SubSeq(@, k + 1, Len(@))]
  /\ pending' = pending \ {f}

\* the 'change' listener of a healthy watcher, for a file whose name does not
\* start with a dot: a path that is pending is ignored, else it becomes pending
\* and handleNewFile runs up to `await fsp.stat(full)`
change(f) ==
  /\ f \notin pending
  /\ pending' = pending \cup {f}
  /\ hn' = [hn EXCEPT ![f] = Append(@, "stat")]
  /\ UNCHANGED <<active, ar>>
  /\ UNCHANGED <<svcVars, pipeVars, storeVars, busVars, nameVars>>

\* handleNewFile: `await fsp.stat(full)` completes: a regular file goes on to
\* isStable; a directory returns, an error is caught
statDone(f, k, r) ==
  /\ k \in DOMAIN hn[f]
  /\ hn[f][k] = "stat"
  /\ IF r = "file"
     THEN hn' = [hn EXCEPT ![f][k] = "stable"] /\ pending' = pending
     ELSE Settle(f, k)
  /\ UNCHANGED <<active, ar>>
  /\ UNCHANGED <<svcVars, pipeVars, storeVars, busVars, nameVars>>

\* handleNewFile: `await this.fsSafe.isStable(full)` completes. On a stable
\* file onAdd is called: the service's callback calls handleWatchEvent, does
\* not await it and returns, so handleNewFile returns while the pipeline runs
isStableDone(f, k, r) ==
  /\ k \in DOMAIN hn[f]
  /\ hn[f][k] = "stable"
  /\ IF r = "stable"
     THEN /\ active[f] < MaxActive
          /\ active' = [active EXCEPT ![f] = @ + 1]
     ELSE active' = active
  /\ Settle(f, k)
  /\ UNCHANGED ar
  /\ UNCHANGED <<svcVars, pipeVars, storeVars, busVars, nameVars>>

\* the promise of a handleWatchEvent call settles
handleWatchEventSettled(f) ==
  /\ active[f] > 0
  /\ active' = [active EXCEPT ![f] = @ - 1]
  /\ UNCHANGED <<pending, hn, ar>>
  /\ UNCHANGED <<svcVars, pipeVars, storeVars, busVars, nameVars>>

InitWatch ==
  /\ SvcIdle
  /\ PipeIdle
  /\ StoreIdle
  /\ BusIdle
  /\ FsIdle
  /\ NameIdle

NextWatch ==
  \/ \E f \in Files : change(f)
  \/ \E f \in Files : \E k \in DOMAIN hn[f] : \E r \in {"file", "notfile", "error"} : statDone(f, k, r)
  \/ \E f \in Files : \E k \in DOMAIN hn[f] : \E r \in {"stable", "unstable", "error"} : isStableDone(f, k, r)
  \/ \E f \in Files : handleWatchEventSettled(f)

SpecWatch == InitWatch /\ [][NextWatch]_vars

\* C29: the watcher's pending guard keeps processing of a path from being
\* re-entered: at most one handleNewFile per path is in progress, and the same
\* file is never in two pipelines (handleWatchEvent calls) at the same time.
C29_OneProcessingPerPath ==
  \A f \in Files : Len(hn[f]) <= 1 /\ active[f] <= 1

\* ------------------------------------------------ FsSafe.atomicRename
maxAttempts == 10

\* the error codes fs.rename fails with; EPERM stands for every code other
\* than EBUSY and ENOENT
ErrCodes == {"EBUSY", "ENOENT", "EPERM"}

isBusyError(err) == err = "EBUSY"

isMissingError(err) == err = "ENOENT"

\* the catch block retrying on EBUSY and ENOENT without the
\* `i < maxAttempts - 1` tests
RetriesUnbounded(err, i) == isBusyError(err) \/ isMissingError(err)

\* the catch block of atomicRename: delay and `continue`, or `throw err`
Retries(err, i) ==
  \/ isBusyError(err) /\ i < maxAttempts - 1
  \/ isMissingError(err) /\ i < maxAttempts - 1

\* the test of the for loop: another fs.rename, or the function returns
ForTest(a) ==
  IF a.i < maxAttempts THEN [a EXCEPT !.pc = "rename"]
  ELSE [a EXCEPT !.pc = "done", !.res = "returned"]

AFrame ==
  /\ UNCHANGED <<pending, hn, active>>
  /\ UNCHANGED <<svcVars, pipeVars, storeVars, busVars, nameVars>>

\* atomicRename(from, to) is called, up to `await fs.mkdir(...)`
atomicRename ==
  /\ ar.pc \in {"idle", "done"}
  /\ ar' = [IdleAr EXCEPT !.pc = "mkdir"]
  /\ AFrame

\* `await fs.mkdir(path.dirname(to), {recursive: true})` completes
mkdirDone(ok) ==
  /\ ar.pc = "mkdir"
  /\ ar' = IF ok THEN ForTest(ar) ELSE [ar EXCEPT !.pc = "done", !.res = "mkdir"]
  /\ AFrame

\* `await fs.rename(from, to)` completes: it resolved ("ok") or threw code
renameAttemptDone(code) ==
  /\ ar.pc = "rename"
  /\ ar' = IF code = "ok" THEN [ar EXCEPT !.pc = "done", !.res = "ok"]
           ELSE LET a == [ar EXCEPT !.errs = Append(@, code)] IN
                IF Retries(code, ar.i) THEN [a EXCEPT !.pc = "delay"]
                ELSE [a EXCEPT !.pc = "done", !.res = code]
  /\ AFrame

\* the delay before a retry is over: `continue`, i++, loop test
retryDelayDone ==
  /\ ar.pc = "delay"
  /\ ar' = ForTest([ar EXCEPT !.i = @ + 1])
  /\ AFrame

InitRename ==
  /\ SvcIdle
  /\ PipeIdle
  /\ StoreIdle
  /\ BusIdle
  /\ FsIdle
  /\ NameIdle

NextRename ==
  \/ atomicRename
  \/ \E ok \in BOOLEAN : mkdirDone(ok)
  \/ \E code \in {"ok"} \cup ErrCodes : renameAttemptDone(code)
  \/ retryDelayDone

SpecRename == InitRename /\ [][NextRename]_vars

\* the file system answers every call and every timer fires
SpecRenameLive ==
  /\ SpecRename
  /\ WF_vars(\E ok \in BOOLEAN : mkdirDone(ok))
  /\ WF_vars(\E code \in {"ok"} \cup ErrCodes : renameAttemptDone(code))
  /\ WF_vars(retryDelayDone)

\* fs.rename calls made so far by the invocation
Attempts == Len(ar.errs) + (IF ar.pc = "rename" \/ ar.res = "ok" THEN 1 ELSE 0)

C30_Bounded ==
  /\ Attempts <= maxAttempts
  /\ \A k \in DOMAIN ar.errs :
       (k < Len(ar.errs) \/ ar.pc \in {"delay", "rename"})
         => ar.errs[k] \in {"EBUSY", "ENOENT"}
  /\ \A k \in DOMAIN ar.errs :
       (k = Len(ar.errs) /\ (ar.errs[k] \notin {"EBUSY", "ENOENT"} \/ k = maxAttempts))
         => ar.pc = "done" /\ ar.res = ar.errs[k]
  /\ ar.pc = "done" => ar.res \in {"ok", "mkdir"} \cup ErrCodes

\* C30: atomicRename always terminates: it makes at most 10 rename attempts,
\* retries only after EBUSY or ENOENT, lets any other error surface at once,
\* and after the 10th failed attempt lets that last error surface.
C30_AtomicRenameTerminates ==
  /\ []C30_Bounded
  /\ (ar.pc \in {"mkdir", "rename", "delay"}) ~> (ar.pc = "done")

\* the 10th attempt has failed with a retryable error, which surfaced
C30_Witness ==
  ar.pc = "done" /\ Len(ar.errs) = maxAttempts /\ ar.res = "EBUSY"

\* ------------------------------------------------ ProfileMatcher
\* bounds: profiles in the list, distinct priority values
MaxProfiles == 3
MaxPriority == 2

\* the patterns of the profiles: globs (isRegex false) and regular
\* expressions (isRegex true), one of which does not compile
Globs == {"*", "Screenshot*"}
Regexes == {"^IMG_", ".", "["}

Basenames == {"Screenshot 1.png", "IMG_1.heic", ".DS_Store", ""}

startsWithDot(b) == b = ".DS_Store"

\* `new RegExp(pattern)` does not throw
Compiles(pattern) == pattern # "["

\* the test function built for a pattern: picomatch(pattern, {dot: false,
\* nocase: true}) for a glob, regex.test for a regular expression
Test(pattern, b) ==
  CASE pattern = "*" -> b \in {"Screenshot 1.png", "IMG_1.heic"}
    [] pattern = "Screenshot*" -> b = "Screenshot 1.png"
    [] pattern = "^IMG_" -> b = "IMG_1.heic"
    [] pattern = "." -> b # ""
    [] OTHER -> FALSE

Profiles ==
  [enabled : BOOLEAN, priority : 1..MaxPriority, pattern : Globs \cup Regexes]

isRegex(p) == p.pattern \in Regexes

ProfileLists == UNION {[1..k -> Profiles] : k \in 0..MaxProfiles}

\* a sort step that puts a profile in front of the profiles of the same
\* priority
InsertByPriorityFirst(sorted, i, ps) ==
  LET k == Cardinality({j \in DOMAIN sorted : ps[sorted[j]].priority < ps[i].priority})
  IN SubSeq(sorted, 1, k) \o <<i>> \o SubSeq(sorted, k + 1, Len(sorted))

\* one step of the stable sort `(a, b) => a.priority - b.priority`: the
\* profile goes behind every profile whose priority is not larger
InsertByPriority(sorted, i, ps) ==
  LET k == Cardinality({j \in DOMAIN sorted : ps[sorted[j]].priority <= ps[i].priority})
  IN SubSeq(sorted, 1, k) \o <<i>> \o SubSeq(sorted, k + 1, Len(sorted))

\* [...profiles].filter(p => p.enabled).sort(...), as positions in profiles
RECURSIVE SortedEnabled(_, _)
SortedEnabled(ps, n) ==
  IF n = 0 THEN <<>>
  ELSE IF ps[n].enabled THEN InsertByPriority(SortedEnabled(ps, n - 1), n, ps)
  ELSE SortedEnabled(ps, n - 1)

\* the constructor's loop: a regular expression that does not compile is
\* skipped, every other profile gets a matcher
Matchers(ps) ==
  SelectSeq(SortedEnabled(ps, Len(ps)),
            LAMBDA i : isRegex(ps[i]) => Compiles(ps[i].pattern))

\* match's loop over this.matchers from position k: the first profile whose
\* test passes, 0 for null
RECURSIVE FirstMatch(_, _, _, _)
FirstMatch(ms, ps, b, k) ==
  IF k > Len(ms) THEN 0
  ELSE IF Test(ps[ms[k]].pattern, b) THEN ms[k]
  ELSE FirstMatch(ms, ps, b, k + 1)

\* new ProfileMatcher(profiles)
ProfileMatcher(ps) ==
  /\ pm.pc = "idle"
  /\ pm' = [pm EXCEPT !.pc = "ready", !.profiles = ps, !.matchers = Matchers(ps)]
  /\ UNCHANGED nm
  /\ UNCHANGED <<svcVars, pipeVars, storeVars, busVars, fsVars>>

\* match(basename)
match(b) ==
  /\ pm.pc \in {"ready", "matched"}
  /\ pm' = [pm EXCEPT !.pc = "matched", !.basename = b,
                      !.res = IF b = "" \/ startsWithDot(b) THEN 0
                              ELSE FirstMatch(pm.matchers, pm.profiles, b, 1)]
  /\ UNCHANGED nm
  /\ UNCHANGED <<svcVars, pipeVars, storeVars, busVars, fsVars>>

InitMatch ==
  /\ SvcIdle
  /\ PipeIdle
  /\ StoreIdle
  /\ BusIdle
  /\ FsIdle
  /\ NameIdle

NextMatch ==
  \/ \E ps \in ProfileLists : ProfileMatcher(ps)
  \/ \E b \in Basenames : match(b)

SpecMatch == InitMatch /\ [][NextMatch]_vars

\* the profiles a match may return for b: enabled, compiled, pattern matching
Eligible(ps, b) ==
  {i \in DOMAIN ps :
     /\ ps[i].enabled
     /\ isRegex(ps[i]) => Compiles(ps[i].pattern)
     /\ Test(ps[i].pattern, b)}

\* C31: match(basename) returns the enabled profile of lowest priority value
\* among those whose pattern matches, the earliest of the list among equals;
\* never a disabled profile or one whose regular expression did not compile;
\* null when nothing matches and for every dotfile.
C31_MatchLowestPriority ==
  pm.pc = "matched" =>
    LET ps == pm.profiles
        b == pm.basename
        el == Eligible(ps, b)
    IN IF startsWithDot(b) \/ b = "" \/ el = {} THEN pm.res = 0
       ELSE /\ pm.res \in el
            /\ \A i \in el : ps[pm.res].priority <= ps[i].priority
            /\ \A i \in el : ps[i].priority = ps[pm.res].priority => pm.res <= i

\* a match that returned the third profile, passing over a disabled profile
\* whose pattern matches and a regular expression that did not compile
C31_Witness ==
  /\ pm.pc = "matched" /\ pm.res = 3
  /\ ~pm.profiles[1].enabled /\ Test(pm.profiles[1].pattern, pm.basename)
  /\ pm.profiles[2].pattern = "["
  /\ pm.profiles[3].priority = MaxPriority

\* ------------------------------------------------ naming (NameTemplate, RenameService)
\* file names are sequences of characters
\* bound: the largest collision suffix reserveTarget reaches
MaxSuffix == 3

Digits == {"0", "1", "2", "3", "4", "5", "6", "7", "8", "9"}

UpperOf == [a |-> "A", b |-> "B", f |-> "F", g |-> "G", i |-> "I", l |-> "L",
            e |-> "E", n |-> "N", p |-> "P"]

LowerLetters == DOMAIN UpperOf

\* String.prototype.toLowerCase on one character
toLowerChar(c) ==
  IF \E x \in LowerLetters : UpperOf[x] = c
  THEN CHOOSE x \in LowerLetters : UpperOf[x] = c
  ELSE c

toLowerCase(s) == [k \in DOMAIN s |-> toLowerChar(s[k])]

\* replace(/\s+/g, '_')
RECURSIVE underscoreSpaces(_)
underscoreSpaces(s) ==
  IF s = <<>> THEN <<>>
  ELSE IF s[1] = " "
  THEN IF Len(s) > 1 /\ s[2] = " " THEN underscoreSpaces(Tail(s))
       ELSE <<"_">> \o underscoreSpaces(Tail(s))
  ELSE <<s[1]>> \o underscoreSpaces(Tail(s))

sanitizePrefix(prefix) == underscoreSpaces(trim(prefix))

\* the profile prefixes: "Img", "a b" (inner space), " B." (leading space and a
\* character that is special in a regular expression), "" (unset)
Prefixes == {<<"I", "m", "g">>, <<"a", " ", "b">>, <<" ", "B", ".">>, <<>>}

FilePrefix == <<"F", "i", "l", "e">>

\* path.extname of the files that arrive: none, ".PNG", ".g_l" (as in
\* photo.jpg_large), "." (a name ending in a dot), ".n9"
ExtVals == {<<>>, <<".", "P", "N", "G">>, <<".", "g", "_", "l">>, <<".">>, <<".", "n", "9">>}

\* formatTimestamp(birthtime) of the file in hand: 2024-12-20_14-35-42
Timestamp ==
  <<"2", "0", "2", "4", "-", "1", "2", "-", "2", "0", "_",
    "1", "4", "-", "3", "5", "-", "4", "2">>

\* the variables of DEFAULT_TEMPLATE, '<prefix>_<datetime>'
DEFAULT_TEMPLATE == <<"<prefix>", "_", "<datetime>">>

\* applyTemplate: every variable of the template is replaced by its value
RECURSIVE applyTemplate(_, _)
applyTemplate(template, ctx) ==
  IF template = <<>> THEN <<>>
  ELSE (CASE template[1] = "<prefix>" ->
               sanitizePrefix(IF ctx.prefix = <<>> THEN FilePrefix ELSE ctx.prefix)
          [] template[1] = "<datetime>" -> Timestamp
          [] OTHER -> <<template[1]>>)
       \o applyTemplate(Tail(template), ctx)

\* buildNameFromTemplate for a template without <ext>: the extension, lower
\* case, is appended
buildNameFromTemplate(template, ctx) ==
  applyTemplate(template, ctx)
    \o toLowerCase(IF ctx.ext # <<>> /\ ctx.ext[1] = "." THEN ctx.ext ELSE <<".">> \o ctx.ext)

\* path.extname of a name: from its last dot (not its first character) on
extname(s) ==
  LET dots == {k \in 2..Len(s) : s[k] = "."}
  IN IF dots = {} THEN <<>>
     ELSE SubSeq(s, CHOOSE k \in dots : \A j \in dots : j <= k, Len(s))

\* the context targetForProfile builds: profile.prefix || 'File', and the
\* extension `stat.ext || getExt(srcPath) || '.png'`
Ctx(prefix, ext) ==
  [prefix |-> IF prefix = <<>> THEN FilePrefix ELSE prefix,
   ext |-> IF ext = <<>> THEN <<".", "p", "n", "g">> ELSE ext]

\* decimal digits of a suffix (below 10)
Numeral(n) == <<CHOOSE d \in Digits : d = ToString(n)>>

\* reserveTarget's candidate number n: the base itself, then name_n.ext
Candidate(base, n) ==
  IF n = 1 THEN base
  ELSE LET ext == extname(base)
           name == SubSeq(base, 1, Len(base) - Len(ext))
       IN name \o <<"_">> \o Numeral(n) \o ext

AllIn(s, chars) == \A k \in DOMAIN s : s[k] \in chars

\* \d{4}-\d{2}-\d{2}_\d{2}-\d{2}-\d{2}
TimestampShape(s) ==
  /\ Len(s) = 19
  /\ \A k \in 1..19 :
       IF k \in {5, 8, 14, 17} THEN s[k] = "-"
       ELSE IF k = 11 THEN s[k] = "_"
       ELSE s[k] \in Digits

\* (?:_\d+)?\.[a-z0-9]+$ with the i flag
TailShape(r) ==
  \E k \in 0..Len(r) :
    /\ k = 0 \/ (k >= 2 /\ r[1] = "_" /\ AllIn(SubSeq(r, 2, k), Digits))
    /\ Len(r) >= k + 2
    /\ r[k + 1] = "."
    /\ AllIn(toLowerCase(SubSeq(r, k + 2, Len(r))), LowerLetters \cup Digits)

\* needsRenameForProfile on the characters of the name: the regular expression
\* ^{prefix}_{timestamp}(?:_\d+)?\.[a-z0-9]+$ (flag i) does not match
needsRenameForProfileTest(base, profilePrefix) ==
  LET prefix == sanitizePrefix(IF profilePrefix = <<>> THEN FilePrefix ELSE profilePrefix)
      lp == Len(prefix)
  IN ~(/\ Len(base) >= lp + 20
       /\ toLowerCase(SubSeq(base, 1, lp)) = toLowerCase(prefix)
       /\ base[lp + 1] = "_"
       /\ TimestampShape(SubSeq(base, lp + 2, lp + 20))
       /\ TailShape(SubSeq(base, lp + 21, Len(base))))

NFrame ==
  /\ UNCHANGED pm
  /\ UNCHANGED <<svcVars, pipeVars, storeVars, busVars, fsVars>>

\* targetForProfile up to reserveTarget's first candidate, for a file with
\* extension ext under a profile with the default template
targetForProfile(prefix, ext) ==
  /\ nm.pc = "idle"
  /\ LET base == buildNameFromTemplate(DEFAULT_TEMPLATE,
                   Ctx(prefix, IF ext = <<>> THEN ext ELSE <<".">> \o SubSeq(ext, 2, Len(ext))))
     IN nm' = [nm EXCEPT !.pc = "reserve", !.prefix = prefix, !.ext = ext,
                         !.base = base, !.n = 1, !.name = base]
  /\ NFrame

\* reserveTarget: the candidate is in flight or on disk, the next one is tried
candidateTaken ==
  /\ nm.pc = "reserve"
  /\ nm.n < MaxSuffix
  /\ nm' = [nm EXCEPT !.n = @ + 1, !.name = Candidate(nm.base, nm.n + 1)]
  /\ NFrame

\* the candidate is free and the file is renamed to it
renamedTo ==
  /\ nm.pc = "reserve"
  /\ nm' = [nm EXCEPT !.pc = "renamed"]
  /\ NFrame

\* the renamed file comes back as a watch event under the same profile:
\* handleRenameOnly's needsRenameForProfile test
reprocess ==
  /\ nm.pc = "renamed"
  /\ nm' = [nm EXCEPT !.pc = "again",
                      !.skipped = ~needsRenameForProfileTest(nm.name, nm.prefix)]
  /\ NFrame

InitName ==
  /\ SvcIdle
  /\ PipeIdle
  /\ StoreIdle
  /\ BusIdle
  /\ FsIdle
  /\ NameIdle

NextName ==
  \/ \E prefix \in Prefixes : \E ext \in ExtVals : targetForProfile(prefix, ext)
  \/ candidateTaken
  \/ renamedTo
  \/ reprocess

SpecName == InitName /\ [][NextName]_vars

\* C32: renaming is idempotent: a file named by the pipeline with the default
\* template, collision suffix included, is skipped as 'idempotent' when it is
\* processed again under the same profile.
C32_RenamedFileSkipped ==
  nm.pc = "again" => nm.skipped

\* the watcher instances of a directory whose start has completed and that
\* have been neither stopped nor disposed since (their fs.watch handle is open)
LiveInsts(d) ==
  {i \in DOMAIN inst : inst[i].dir = d /\ inst[i].st = "healthy"}

\* C33: at every moment at most one watcher instance per directory is started
\* and not yet disposed, whatever the interleaving of a health-check restart
\* with the syncWatchers runs of start, stop and config changes.
C33_OneLiveWatcherPerDir ==
  \A d \in Dirs : Cardinality(LiveInsts(d)) <= 1

\* C34: the health monitor never leaves a watcher for a directory outside the
\* desired set: once the health check and every start, stop and syncWatchers
\* have completed, every directory that has a watcher is a configured
\* directory of a running service.
C34_NoWatcherOutsideDesired ==
  Quiescent => WatchedDirs \subseteq DesiredDirs

\* C35: a config change received while the service is not running (and no
\* start, stop, sync or health check is still in progress) starts no watcher
\* and leaves the watcher map empty: the notification creates no watcher
\* instance, calls no syncWatchers, and the map is empty after it.
C35_StoppedConfigChangeInert ==
  [][((\E dirs \in DirSeqs : onConfigChange(dirs)) /\ ~running /\ Quiescent)
       => /\ inst' = inst /\ nextInst' = nextInst /\ sync' = sync
          /\ WatchedDirs' = {}]_vars

\* C36: the journal file holds the entries recorded so far minus the entries
\* undone: every change of the file either appends one entry (record) or
\* removes exactly the entry the completing undo has reversed.
C36_JournalIsRecordedMinusUndone ==
  [][journal' # journal
       => \/ \E e \in Entries : journal' = Append(journal, e)
          \/ /\ un.pc = "mv" /\ un'.res = "ok"
             /\ Len(journal') = Len(journal) - 1
             /\ Range(journal') = Range(journal) \ {un.last}]_vars

\* C37: a failure event is emitted only when the mutation did not take place:
\* a pipeline that emitted 'error' has not renamed its file, and a pipeline
\* that emitted 'convert-error' has emitted no 'converted'.
C37_FailureMeansNoMutation ==
  \A p \in DOMAIN pl :
    /\ "error" \in Range(pl[p].ev) => pl[p].renamed # "ok"
    /\ "convert-error" \in Range(pl[p].ev) => "converted" \notin Range(pl[p].ev)

\* the path a pipeline in progress is going to create: a rename target, or the
\* output of a conversion it has chosen
Destination(p) ==
  IF pl[p].pc \in {"src", "poll", "ren"} THEN pl[p].target
  ELSE IF pl[p].pc = "cvExec" THEN pl[p].conv
  ELSE NoName

\* C38: no pipeline renames a file onto a path that is occupied on disk or
\* that is the destination of another pipeline in progress, under any
\* interleaving of rename, convert and rename+convert pipelines.
C38_RenameOntoFreePath ==
  [][\A p \in DOMAIN pl :
       (pl[p].pc = "ren" /\ pl'[p].renamed = "ok" /\ pl[p].renamed # "ok")
         => /\ pl[p].target \notin disk
            /\ \A q \in DOMAIN pl \ {p} : Destination(q) # pl[p].target]_vars

\* a watched directory in which a file already carries a name of the target
\* shape and is convertible: its conversion output is a name the template
\* yields for the other file
MixSources == {Name("A", 1, "heic"), Name(TargetStem, 1, "heic")}

InitMix ==
  /\ SvcIdle
  /\ StoreIdle
  /\ BusIdle
  /\ FsIdle
  /\ NameIdle
  /\ disk = MixSources
  /\ inFlightTargets = {}
  /\ journal = <<>>
  /\ cache = <<>>
  /\ pl = [p \in 1..MaxRuns |-> IdlePl]
  /\ un = IdleUn
  /\ dryRun \in BOOLEAN

NextMix ==
  \/ \E p \in DOMAIN pl, f \in MixSources, act \in Actions : handleWatchEvent(p, f, act)
  \/ \E p \in DOMAIN pl : reserveTargetDone(p)
  \/ \E p \in DOMAIN pl : sourceCheckDone(p)
  \/ \E p \in DOMAIN pl : pollDone(p)
  \/ \E p \in DOMAIN pl, ok \in BOOLEAN : atomicRenameDone(p, ok)
  \/ \E p \in DOMAIN pl, ok \in BOOLEAN : recordDone(p, ok)
  \/ \E p \in DOMAIN pl : convReserveDone(p)
  \/ \E p \in DOMAIN pl, ok \in BOOLEAN : convertDone(p, ok)
  \/ \E p \in DOMAIN pl, ok \in BOOLEAN : convRecordDone(p, ok)
  \/ \E p \in DOMAIN pl, ok \in BOOLEAN : moveToTrashDone(p, ok)

SpecMix == InitMix /\ [][NextMix]_vars

\* C39: once a directory's restart budget is exhausted, the permanent-failure
\* toast for that directory is emitted at most once per run, not again on
\* every later health-check tick.
C39_PermanentToastOnce == \A d \in Dirs : permToast[d] <= 1

\* ------------------------------------------------ the watcher lock, live
\* start, stop and config changes with the syncWatchers invocations they
\* queue; every await of a locked body completes (with either outcome)
SyncStep ==
  \/ \E k \in DOMAIN sync : syncWatchers(k)
  \/ \E k \in DOMAIN sync, d \in Dirs : syncStopDone(k, d)
  \/ \E k \in DOMAIN sync, d \in Dirs : syncDisposeDone(k, d)
  \/ \E k \in DOMAIN sync, ok \in BOOLEAN : syncEnsureDone(k, ok)
  \/ \E k \in DOMAIN sync, ok \in BOOLEAN : syncStartDone(k, ok)
  \/ \E k \in DOMAIN sync : startContinue(k)
  \/ \E k \in DOMAIN sync : stopContinue(k)

NextLock ==
  \/ \E dirs \in DirSeqs : init(dirs)
  \/ start
  \/ stop
  \/ \E dirs \in DirSeqs : onConfigChange(dirs)
  \/ \E k \in DOMAIN sync : syncWatchers(k)
  \/ \E k \in DOMAIN sync, d \in Dirs : syncStopDone(k, d)
  \/ \E k \in DOMAIN sync, d \in Dirs : syncDisposeDone(k, d)
  \/ \E k \in DOMAIN sync, ok \in BOOLEAN : syncEnsureDone(k, ok)
  \/ \E k \in DOMAIN sync, ok \in BOOLEAN : syncStartDone(k, ok)
  \/ \E k \in DOMAIN sync : startContinue(k)
  \/ \E k \in DOMAIN sync : stopContinue(k)

\* the service after construction and init() with watchDirs = [d1], not started
InitLock ==
  /\ running = FALSE
  /\ config = <<"d1">>
  /\ watchers = [d \in Dirs |-> 0]
  /\ mapData = <<>>
  /\ inst = [i \in 1..MaxInst |-> NoInst]
  /\ nextInst = 0
  /\ watcherLock = 0
  /\ released = {0}
  /\ sync = [k \in 1..MaxSync |-> IdleSync]
  /\ healthCheckInterval = FALSE
  /\ watcherRestartAttempts = [d \in Dirs |-> 0]
  /\ hc = IdleHc
  /\ ticks = 0
  /\ failed = [d \in Dirs |-> 0]
  /\ permToast = [d \in Dirs |-> 0]
  /\ status = FALSE
  /\ configListeners = 1
  /\ configEvents = 1
  /\ PipeIdle
  /\ StoreIdle
  /\ BusIdle
  /\ FsIdle
  /\ NameIdle

\* every step of SyncStep changes sync
SpecLock == InitLock /\ [][NextLock]_vars /\ WF_sync(SyncStep)

\* C40: the watcher lock is released whenever the locked body is left,
\* including by a throw, so every queued syncWatchers invocation eventually
\* runs: a failed sync never blocks a later start, stop or config change.
C40_LockAlwaysReleased ==
  /\ [](\A k \in 1..MaxSync : sync[k].pc \in {"cont", "done"} => k \in released)
  /\ \A k \in 1..MaxSync : (sync[k].pc = "wait") ~> (sync[k].pc \in {"cont", "done"})

\* a syncWatchers invocation threw (a watcher start or directory creation
\* failed) and the invocation queued behind it has run to its end
C40_Witness ==
  \E k \in 1..(MaxSync - 1) :
    /\ sync[k].pc = "done" /\ ~sync[k].ok
    /\ sync[k + 1].prev = k
    /\ sync[k + 1].pc = "done"

====
